---- MODULE Spec2Model ----
(***************************************************************************)
(* Model of the Mammotion web service core                                 *)
(* (src/src/mammotion_web/services/mammotion_service.py).                  *)
(*                                                                         *)
(* Python values are modelled with a fixed type per field: text fields are *)
(* strings with NoneS for None, numeric fields are integers with NoneN for *)
(* None.  Coordinates are integers in units of 1/100000 degree.            *)
(***************************************************************************)
EXTENDS Integers, Sequences, FiniteSets, TLC

VARIABLES
    lock,               \* session.lock: the task holding it, "" when free
    devices_by_iot,     \* session.devices_by_iot
    managers_by_iot,    \* session.managers_by_iot
    last_known_by_iot,  \* session.last_known_by_iot
    session_mammotion,  \* whether session.mammotion and its MQTT client are set
    now,                \* time.time()
    nextMgr,            \* the identity of the next manager object
    ops,                \* the service calls started so far
    task,               \* the tasks calling into the service
    wmValue,      \* _map_work_mode: the argument
    wmImportOk,   \* _map_work_mode: whether the WorkMode import succeeds
    wmResult,     \* _map_work_mode: the returned text, NoneS before the call
    lsLogical,    \* listing shapes: the logical devices of the account
    lsOut,        \* listing shapes: per shape, the outcome of list_devices
    store,        \* _SESSION_STORE: sid -> AuthSession
    nextSid,      \* the next value _new_sid returns
    lgPc,         \* login call of each caller: its position
    lgEmail,      \* login call: the email argument
    lgCloud,      \* login call: the CloudIOTGateway object it created (0: none)
    nextCloud,    \* the identity of the next CloudIOTGateway object
    lgMammotion,  \* login call: whether mammotion_obj is set
    lgPolls,      \* login call: sleeps done in the MQTT wait loop
    lgResult,     \* login call: the returned sid (0: none)
    lgErr,        \* login call: the exception raised ("" when none)
    lgFailed,     \* login call: the handshake stage whose await raised ("" when none)
    lgCalls,      \* login calls started so far
    cmCaps,       \* command dispatch: what the device handle and its parent offer
    cmRaw,        \* command dispatch: the command text of each of the two calls
    cmOut,        \* command dispatch: the outcome of each call
    pmc,          \* PyMammotionClient: _http, _cloud, _mgr, _authenticated, _last_login_time
    clLogin,      \* PyMammotionClient: the login call (or the close) last made
    clReq,        \* PyMammotionClient: the request last made
    clCalls,      \* PyMammotionClient: the calls started so far
    lo,           \* logout: the logout call last made
    rs,           \* resolve_session: the call last made
    loCalls,      \* session store: the calls started so far
    dmClient,     \* DeviceManager._client is set
    dmCmd,        \* DeviceManager.command: the call last made
    dmTopics,     \* EventBus._topics: topic -> payloads put
    dmCalls,      \* DeviceManager: the calls started so far
    rdKeys,       \* Redis: session_key -> the stored session_info
    rdTask,       \* SessionManager: the call each task runs
    rdDeleted,    \* the sids for which delete_session returned True
    rdNext,       \* the next session_id create_session draws
    rdCalls,      \* SessionManager: the calls started so far
    mmModel,      \* MammotionModel: _api_mode, _api_client, _is_connected, _credentials
    mmLast,       \* MammotionModel: the last login or logout call and its result
    mmLoggedOut,  \* MammotionModel: a logout was performed on the model
    mmCalls       \* MammotionModel: the calls made so far

wmVars == <<wmValue, wmImportOk, wmResult>>
lsVars == <<lsLogical, lsOut>>
lgVars == <<store, nextSid, nextCloud, lgPc, lgEmail, lgCloud, lgMammotion, lgPolls,
            lgResult, lgErr, lgFailed, lgCalls>>

cmVars == <<cmCaps, cmRaw, cmOut>>

svVars == <<lock, devices_by_iot, managers_by_iot, last_known_by_iot,
           session_mammotion, now,
           nextMgr, ops, task>>
clVars == <<pmc, clLogin, clReq, clCalls>>
loVars == <<lo, rs, loCalls>>
dmVars == <<dmClient, dmCmd, dmTopics, dmCalls>>
rdVars == <<rdKeys, rdTask, rdDeleted, rdNext, rdCalls>>
mmVars == <<mmModel, mmLast, mmLoggedOut, mmCalls>>
vars == <<wmVars, lsVars, lgVars, cmVars, svVars, clVars, loVars, dmVars, rdVars, mmVars>>

\* What the actions of one part leave alone: the variables of the other parts.
wmOthers == <<lsVars, lgVars, cmVars, svVars, clVars, loVars, dmVars, rdVars, mmVars>>
lsOthers == <<wmVars, lgVars, cmVars, svVars, clVars, loVars, dmVars, rdVars, mmVars>>
lgOthers == <<wmVars, lsVars, cmVars, svVars, clVars, loVars, dmVars, rdVars, mmVars>>
cmOthers == <<wmVars, lsVars, lgVars, svVars, clVars, loVars, dmVars, rdVars, mmVars>>
svOthers == <<wmVars, lsVars, lgVars, cmVars, clVars, loVars, dmVars, rdVars, mmVars>>
clOthers == <<wmVars, lsVars, lgVars, cmVars, svVars, loVars, dmVars, rdVars, mmVars>>
loOthers == <<wmVars, lsVars, cmVars, svVars, clVars, dmVars, rdVars, mmVars>>
dmOthers == <<wmVars, lsVars, lgVars, cmVars, svVars, clVars, loVars, rdVars, mmVars>>
rdOthers == <<wmVars, lsVars, lgVars, cmVars, svVars, clVars, loVars, dmVars, mmVars>>
mmOthers == <<wmVars, lsVars, lgVars, cmVars, svVars, clVars, loVars, dmVars, rdVars>>

\* Python None in a text field / in a numeric field.
NoneS == "<None>"
NoneN == -999999999

\* str(v) of a text field: str(None) is the text "None".
Str(v) == IF v = NoneS THEN "None" ELSE v

(***************************************************************************)
(* _map_work_mode                                                          *)
(***************************************************************************)
\* The WorkMode codes, by the defaults the code names in getattr(..., default).
MODE_READY == 11
MODE_NOT_ACTIVE == 0
MODE_WORKING == 13
MODE_RETURNING == 14
MODE_CHARGING == 15
MODE_PAUSE == 19
MODE_ONLINE == 1
MODE_OFFLINE == 2
MODE_LOCK == 17
MODE_UPDATING == 16
MODE_OTA_UPGRADE_FAIL == 23

\* f"mode_{int(value)}"
ModeN(n) == "mode_" \o ToString(n)

\* The mapping dict of _map_work_mode, as the set of its (key, text) pairs.
WorkModeMapping ==
    { <<MODE_READY, "standby">>, <<MODE_NOT_ACTIVE, "standby">>,
      <<MODE_WORKING, "mowing">>, <<MODE_RETURNING, "returning">>,
      <<MODE_CHARGING, "charging">>, <<MODE_PAUSE, "paused">>,
      <<MODE_ONLINE, "online">>, <<MODE_OFFLINE, "offline">>,
      <<MODE_LOCK, "locked">>, <<MODE_UPDATING, "updating">>,
      <<MODE_OTA_UPGRADE_FAIL, "update_failed">> }

\* Mutant: the MODE_NOT_ACTIVE entry is missing and MODE_WORKING decodes as returning.
MapWorkModeBroken(value, importOk) ==
    IF ~importOk THEN ModeN(value)
    ELSE IF value = MODE_WORKING THEN "returning"
    ELSE IF \E p \in WorkModeMapping : p[1] = value /\ p[1] # MODE_NOT_ACTIVE
         THEN (CHOOSE p \in WorkModeMapping : p[1] = value)[2]
         ELSE ModeN(value)

\* _map_work_mode(value); importOk = FALSE is the except branch.
MapWorkMode(value, importOk) ==
    IF ~importOk THEN ModeN(value)
    ELSE IF \E p \in WorkModeMapping : p[1] = value
         THEN (CHOOSE p \in WorkModeMapping : p[1] = value)[2]
         ELSE ModeN(value)

\* Bounds of the work-mode inputs: codes MinMode..MaxMode.
MinModeAbs == 3
MaxMode == 60

WorkModeInputs == (0 - MinModeAbs)..MaxMode

WmInit ==
    /\ wmValue \in WorkModeInputs
    /\ wmImportOk \in BOOLEAN
    /\ wmResult = NoneS

WmIdle ==
    /\ wmValue = 0
    /\ wmImportOk = TRUE
    /\ wmResult = NoneS

\* One call of _map_work_mode.
CallMapWorkMode ==
    /\ wmResult = NoneS
    /\ wmResult' = MapWorkMode(wmValue, wmImportOk)
    /\ UNCHANGED <<wmValue, wmImportOk, wmOthers>>

(***************************************************************************)
(* list_devices: normalisation of the upstream listing                     *)
(***************************************************************************)
\* Python truthiness in "a or b" for text and for numbers.
TruthyS(v) == v # NoneS /\ v # ""
TruthyN(v) == v # NoneN /\ v # 0
OrS(a, b) == IF TruthyS(a) THEN a ELSE b
OrN(a, b) == IF TruthyN(a) THEN a ELSE b

\* item.get(key) of a dict item / getattr(dev, key, None) of a typed device.
GetS(item, key) == IF key \in DOMAIN item THEN item[key] ELSE NoneS
GetN(item, key) == IF key \in DOMAIN item THEN item[key] ELSE NoneN

\* An absent position, and a position pair.
NoPos == [lat |-> NoneN, lon |-> NoneN]
Pos(lat, lon) == [lat |-> lat, lon |-> lon]

\* The texts (lower-cased by the code before the test) that contain one of the
\* keywords rtk, base, station, rasenradar.
BaseStationTexts == {"RTK-BBB", "RTK Base", "rtk"}
IsBase(name, model, cat) ==
    \E t \in {name, model, cat} : t \in BaseStationTexts

\* The upstream response objects.  kind "typed": has .data.data and to_dict();
\* "dictobj": has to_dict() only; "dict": a plain dict; "list": a plain list;
\* "none": None.  key/nested say where the dict view keeps the device list.
NoResp == [kind |-> "none", key |-> "", nested |-> FALSE, devs |-> <<>>]
TypedResp(devs) == [kind |-> "typed", key |-> "data", nested |-> TRUE, devs |-> devs]
DictObjResp(key, nested, devs) ==
    [kind |-> "dictobj", key |-> key, nested |-> nested, devs |-> devs]
PlainDictResp(key, nested, devs) ==
    [kind |-> "dict", key |-> key, nested |-> nested, devs |-> devs]
FlatListResp(devs) == [kind |-> "list", key |-> "", nested |-> FALSE, devs |-> devs]

\* hasattr(resp, "to_dict") and the typed attribute path resp.data.data.
HasToDict(resp) == resp.kind \in {"typed", "dictobj"}
HasTypedData(resp) == resp.kind = "typed"

\* The keys the dict heuristics try, in order.
ListingKeys == <<"data", "devices", "list", "result">>

\* data_dict: resp.to_dict(), else cloud.devices_by_account_response.to_dict().
DataDict(resp, cloudAttr) ==
    IF HasToDict(resp) THEN resp
    ELSE IF cloudAttr.kind # "none" /\ HasToDict(cloudAttr) THEN cloudAttr
    ELSE NoResp

\* typed_devices: resp.data.data, else cloud.devices_by_account_response.data.data.
TypedDevices(resp, cloudAttr) ==
    IF HasTypedData(resp) THEN resp.devs
    ELSE IF cloudAttr.kind # "none" /\ HasTypedData(cloudAttr) THEN cloudAttr.devs
    ELSE <<>>

\* The devices_by_iot a listing leaves: cleared, then every typed device with a
\* truthy iotId, a later device replacing an earlier one of the same id.
RECURSIVE IndexTyped(_, _)
IndexTyped(devs, acc) ==
    IF devs = <<>> THEN acc
    ELSE LET dev == Head(devs)
             id == GetS(dev, "iotId")
         IN IndexTyped(Tail(devs),
                IF TruthyS(id)
                THEN [k \in (DOMAIN acc) \cup {id} |-> IF k = id THEN dev ELSE acc[k]]
                ELSE acc)

EmptyIndex == [k \in {} |-> NoResp]

\* One summary of the typed branch.
TypedSummary(dev) ==
    LET iot_id == GetS(dev, "iotId")
        name == OrS(OrS(GetS(dev, "nickName"), GetS(dev, "deviceName")), iot_id)
        model == OrS(OrS(GetS(dev, "productModel"), GetS(dev, "productName")), "Unknown")
        cat == OrS(GetS(dev, "categoryName"), "")
    IN [id |-> Str(iot_id),
        name |-> IF name # NoneS THEN Str(name) ELSE Str(iot_id),
        model |-> Str(model),
        battery |-> NoneN,
        status |-> "unknown",
        position |-> NoPos,
        is_base |-> IsBase(Str(name), Str(model), Str(cat))]

\* One summary of the dict-heuristics branch.
DictSummary(item) ==
    LET iot_id == OrS(OrS(OrS(OrS(GetS(item, "iotId"), GetS(item, "iot_id")),
                              GetS(item, "id")), GetS(item, "deviceId")),
                      GetS(item, "device_id"))
        name == OrS(OrS(OrS(GetS(item, "nickName"), GetS(item, "deviceName")),
                        GetS(item, "name")), iot_id)
        model == OrS(OrS(OrS(GetS(item, "productModel"), GetS(item, "model")),
                         GetS(item, "productName")), "Unknown")
        cat == OrS(GetS(item, "categoryName"), "")
        battery == IF GetN(item, "battery") # NoneN THEN GetN(item, "battery")
                   ELSE GetN(item, "batteryLevel")
        status == OrS(OrS(GetS(item, "status"), GetS(item, "work_mode")), "unknown")
        position == IF "position" \in DOMAIN item THEN item["position"] ELSE NoPos
        lat == OrN(GetN(item, "latitude"), position.lat)
        lon == OrN(GetN(item, "longitude"), position.lon)
    IN [id |-> IF iot_id # NoneS THEN Str(iot_id) ELSE name,
        name |-> Str(name),
        model |-> Str(model),
        battery |-> battery,
        status |-> Str(status),
        position |-> IF lat # NoneN /\ lon # NoneN THEN Pos(lat, lon) ELSE NoPos,
        is_base |-> IsBase(Str(name), Str(model), Str(cat))]

\* The result list of each branch, in listing order.
TypedSummaries(devs) == [i \in 1..Len(devs) |-> TypedSummary(devs[i])]
DictSummaries(items) == [i \in 1..Len(items) |-> DictSummary(items[i])]

\* devices_raw: the list under the first of ListingKeys that holds one.
DevicesRaw(dataDict) ==
    IF \E i \in 1..Len(ListingKeys) : ListingKeys[i] = dataDict.key
    THEN dataDict.devs
    ELSE <<>>

\* The outcome of list_devices once the upstream answered: err is "" or the name of
\* the exception raised, result the summaries, index the devices_by_iot it leaves.
ListOutcome(err, result, index) == [err |-> err, result |-> result, index |-> index]

\* list_devices from the typed-response handling on (resp is not None here).
NormalizeListing(resp, cloudAttr) ==
    LET typed == TypedDevices(resp, cloudAttr)
        dataDict == DataDict(resp, cloudAttr)
        index == IndexTyped(typed, EmptyIndex)
    IN IF typed # <<>> THEN ListOutcome("", TypedSummaries(typed), index)
       ELSE IF dataDict.kind = "none" THEN ListOutcome("ServiceError", <<>>, index)
       ELSE ListOutcome("", DictSummaries(DevicesRaw(dataDict)), index)

(***************************************************************************)
(* The same logical devices delivered in each supported shape               *)
(***************************************************************************)
\* A device of the account, as the typed Device object and as its dict item.
Device(iotId, nick, devName, prodModel, prodName, cat, ident) ==
    [iotId |-> iotId, nickName |-> nick, deviceName |-> devName,
     productModel |-> prodModel, productName |-> prodName,
     categoryName |-> cat, identityId |-> ident]

ListingUniverse ==
    { Device("dev1", "Luba 2", "Luba-AAA", "Luba2AWD", "Luba 2 AWD", "mower", "ident1"),
      Device("dev2", NoneS, "RTK-BBB", NoneS, "RTK Base", "rtk", NoneS),
      Device("dev3", NoneS, NoneS, NoneS, NoneS, NoneS, "ident3"),
      Device("dev4", "Yuka", "Yuka-CCC", "", "Yuka Mini", "mower", ""),
      Device(NoneS, "Ghost", NoneS, "Luba2AWD", NoneS, NoneS, NoneS) }

\* Bound: the number of devices of one listing.
MaxListed == 2

RECURSIVE SeqsUpTo(_, _)
SeqsUpTo(S, n) ==
    IF n = 0 THEN {<<>>}
    ELSE LET shorter == SeqsUpTo(S, n - 1)
         IN shorter \cup {Append(q, d) : q \in shorter, d \in S}

Shapes == {"typed", "dict", "flat"}
NotRun == ListOutcome("not run", <<>>, EmptyIndex)

LsInit ==
    /\ lsLogical \in SeqsUpTo(ListingUniverse, MaxListed)
    /\ lsOut = [sh \in Shapes |-> NotRun]

LsIdle ==
    /\ lsLogical = <<>>
    /\ lsOut = [sh \in Shapes |-> NotRun]

\* list_devices on the typed response; the gateway keeps the response it returned.
ListTyped ==
    /\ lsOut["typed"] = NotRun
    /\ lsOut' = [lsOut EXCEPT !["typed"] =
                    NormalizeListing(TypedResp(lsLogical), TypedResp(lsLogical))]
    /\ UNCHANGED <<lsLogical, lsOthers>>

\* list_devices on a dict with the list under one of the four keys, directly or one
\* level down, delivered by an object with to_dict() or as a plain dict.
ListDict ==
    /\ lsOut["dict"] = NotRun
    /\ \E i \in 1..Len(ListingKeys), nested \in BOOLEAN, plain \in BOOLEAN :
          lsOut' = [lsOut EXCEPT !["dict"] =
                       NormalizeListing(
                           IF plain THEN PlainDictResp(ListingKeys[i], nested, lsLogical)
                                    ELSE DictObjResp(ListingKeys[i], nested, lsLogical),
                           NoResp)]
    /\ UNCHANGED <<lsLogical, lsOthers>>

\* list_devices on a flat list.
ListFlat ==
    /\ lsOut["flat"] = NotRun
    /\ lsOut' = [lsOut EXCEPT !["flat"] =
                    NormalizeListing(FlatListResp(lsLogical), NoResp)]
    /\ UNCHANGED <<lsLogical, lsOthers>>

(***************************************************************************)
(* MammotionService.login and the session store                            *)
(***************************************************************************)
Callers == {"a", "b"}

\* Bound: the login calls made in all.
MaxLoginCalls == 2

\* for _ in range(40): the sleeps of the MQTT wait loop.
MqttPolls == 40

\* The five handshake stages, in order, and the position after each await.
Stages == <<"http_login", "get_region", "connect", "login_by_oauth",
            "session_by_auth_code">>
StagePcs == {Stages[i] : i \in 1..Len(Stages)}
NextStage(pc) ==
    LET i == CHOOSE j \in 1..Len(Stages) : Stages[j] = pc
    IN IF i < Len(Stages) THEN Stages[i + 1] ELSE "aep_handle"

Emails == {"", "user@example.org"}

\* AuthSession(email=email, client=cloud, manager=None, mammotion=mammotion_obj)
AuthSession(email, client, mammotion) ==
    [email |-> email, client |-> client, manager |-> 0, mammotion |-> mammotion]

\* _store_session: the store with the session under a new sid.
StoreSession(st, sid, session) ==
    [k \in (DOMAIN st) \cup {sid} |-> IF k = sid THEN session ELSE st[k]]

LgInit ==
    /\ store = [k \in {} |-> AuthSession("", 0, FALSE)]
    /\ nextSid = 1
    /\ nextCloud = 1
    /\ lgPc = [c \in Callers |-> "idle"]
    /\ lgEmail = [c \in Callers |-> ""]
    /\ lgCloud = [c \in Callers |-> 0]
    /\ lgMammotion = [c \in Callers |-> FALSE]
    /\ lgPolls = [c \in Callers |-> 0]
    /\ lgResult = [c \in Callers |-> 0]
    /\ lgErr = [c \in Callers |-> ""]
    /\ lgFailed = [c \in Callers |-> ""]
    /\ lgCalls = 0

LgIdle == LgInit

\* Mutant: a failure of session_by_auth_code is logged and the login continues.
StageAbortsLenient(pc) == pc \in StagePcs \ {"session_by_auth_code"}

\* Whether an exception of the await at this position aborts login with AuthError.
StageAborts(pc) == pc \in StagePcs

\* The call raises err at its current position.
LgRaise(c, err) ==
    /\ lgPc' = [lgPc EXCEPT ![c] = "raised"]
    /\ lgErr' = [lgErr EXCEPT ![c] = err]

\* login entry: the imports and the two constructors, up to the first await.
LoginStart(c) ==
    /\ lgPc[c] \in {"idle", "raised", "returned"}
    /\ lgCalls < MaxLoginCalls
    /\ \E email \in Emails, password \in {"", "secret"}, setupOk \in BOOLEAN :
          /\ lgEmail' = [lgEmail EXCEPT ![c] = email]
          /\ lgCalls' = lgCalls + 1
          /\ lgMammotion' = [lgMammotion EXCEPT ![c] = FALSE]
          /\ lgPolls' = [lgPolls EXCEPT ![c] = 0]
          /\ lgResult' = [lgResult EXCEPT ![c] = 0]
          /\ lgFailed' = [lgFailed EXCEPT ![c] = ""]
          /\ IF setupOk
             THEN /\ lgPc' = [lgPc EXCEPT ![c] = Stages[1]]
                  /\ lgErr' = [lgErr EXCEPT ![c] = ""]
                  /\ lgCloud' = [lgCloud EXCEPT ![c] = nextCloud]
                  /\ nextCloud' = nextCloud + 1
             ELSE /\ LgRaise(c, "AuthError")
                  /\ lgCloud' = [lgCloud EXCEPT ![c] = 0]
                  /\ UNCHANGED nextCloud
    /\ UNCHANGED <<store, nextSid, lgOthers>>

\* The await of one handshake stage returns or raises.
LoginStage(c) ==
    /\ lgPc[c] \in StagePcs
    /\ \E ok \in BOOLEAN :
          /\ lgFailed' = [lgFailed EXCEPT ![c] = IF ok THEN @ ELSE lgPc[c]]
          /\ IF ok \/ ~StageAborts(lgPc[c])
             THEN /\ lgPc' = [lgPc EXCEPT ![c] = NextStage(lgPc[c])]
                  /\ UNCHANGED lgErr
             ELSE LgRaise(c, "AuthError")
    /\ UNCHANGED <<store, nextSid, nextCloud, lgEmail, lgCloud, lgMammotion, lgPolls,
                   lgResult, lgCalls, lgOthers>>

\* except Exception as e: self.logger.error("aep_handle failed (continuing)")
\* Mutant: a failure of aep_handle aborts the login.
AepAbortsOnFailure(ok) == ~ok
AepAborts(ok) == FALSE

\* await cloud.aep_handle(): a failure is logged only.
LoginAepHandle(c) ==
    /\ lgPc[c] = "aep_handle"
    /\ \E ok \in BOOLEAN :
          IF AepAborts(ok)
          THEN /\ LgRaise(c, "AuthError")
               /\ lgFailed' = [lgFailed EXCEPT ![c] = "aep_handle"]
          ELSE /\ lgPc' = [lgPc EXCEPT ![c] = "mqtt_init"]
               /\ UNCHANGED <<lgErr, lgFailed>>
    /\ UNCHANGED <<store, nextSid, nextCloud, lgEmail, lgCloud, lgMammotion, lgPolls,
                   lgResult, lgCalls, lgOthers>>

\* The session is stored and its sid returned.
LgStore(c, mammotion) ==
    /\ store' = StoreSession(store, nextSid, AuthSession(lgEmail[c], lgCloud[c], mammotion))
    /\ nextSid' = nextSid + 1
    /\ lgResult' = [lgResult EXCEPT ![c] = nextSid]
    /\ lgMammotion' = [lgMammotion EXCEPT ![c] = mammotion]
    /\ lgPc' = [lgPc EXCEPT ![c] = "returned"]

\* Mammotion() and await login_and_initiate_cloud: on an exception the login goes
\* on without the orchestrator; otherwise the MQTT client is looked up and, unless
\* it reports connected at once, the first sleep starts.
LoginMqttInit(c) ==
    /\ lgPc[c] = "mqtt_init"
    /\ \E ok \in BOOLEAN, connected \in BOOLEAN :
          IF ~ok
          THEN /\ LgStore(c, FALSE)
               /\ lgFailed' = [lgFailed EXCEPT ![c] = "mqtt_init"]
               /\ UNCHANGED lgPolls
          ELSE IF connected THEN LgStore(c, TRUE) /\ UNCHANGED <<lgPolls, lgFailed>>
          ELSE /\ lgPc' = [lgPc EXCEPT ![c] = "mqtt_wait"]
               /\ lgMammotion' = [lgMammotion EXCEPT ![c] = TRUE]
               /\ lgPolls' = [lgPolls EXCEPT ![c] = 0]
               /\ UNCHANGED <<store, nextSid, lgResult, lgFailed>>
    /\ UNCHANGED <<nextCloud, lgEmail, lgCloud, lgErr, lgCalls, lgOthers>>

\* One sleep of the wait loop returns: the loop ends after MqttPolls sleeps or when
\* the client reports connected, and the session is stored.
LoginMqttPoll(c) ==
    /\ lgPc[c] = "mqtt_wait"
    /\ \E connected \in BOOLEAN :
          IF lgPolls[c] + 1 >= MqttPolls \/ connected
          THEN /\ LgStore(c, TRUE)
               /\ lgPolls' = [lgPolls EXCEPT ![c] = 0]
               /\ lgFailed' = [lgFailed EXCEPT ![c] =
                                  IF lgPolls[c] + 1 >= MqttPolls THEN "mqtt_timeout"
                                  ELSE @]
          ELSE /\ lgPolls' = [lgPolls EXCEPT ![c] = @ + 1]
               /\ UNCHANGED <<store, nextSid, lgResult, lgMammotion, lgPc, lgFailed>>
    /\ UNCHANGED <<nextCloud, lgEmail, lgCloud, lgErr, lgCalls, lgOthers>>

(***************************************************************************)
(* MammotionService.send_command: normalisation and dispatch               *)
(* A command text is the sequence of its characters.                       *)
(***************************************************************************)
UpperLetters == <<"A", "C", "D", "E", "F", "G", "I", "K", "L", "M", "N", "O", "P",
                  "R", "S", "T", "U", "W", "Y">>
LowerLetters == <<"a", "c", "d", "e", "f", "g", "i", "k", "l", "m", "n", "o", "p",
                  "r", "s", "t", "u", "w", "y">>
Whitespace == {" ", "\t"}

\* str.lower() of one character and of a text.
LowerChar(ch) ==
    IF \E i \in 1..Len(UpperLetters) : UpperLetters[i] = ch
    THEN LowerLetters[CHOOSE i \in 1..Len(UpperLetters) : UpperLetters[i] = ch]
    ELSE ch
Lower(text) == [i \in 1..Len(text) |-> LowerChar(text[i])]

\* str.strip(): the text without its leading and trailing whitespace.
RECURSIVE LStrip(_)
LStrip(text) ==
    IF text # <<>> /\ Head(text) \in Whitespace THEN LStrip(Tail(text)) ELSE text
RECURSIVE RStrip(_)
RStrip(text) ==
    IF text # <<>> /\ text[Len(text)] \in Whitespace
    THEN RStrip(SubSeq(text, 1, Len(text) - 1))
    ELSE text
Strip(text) == RStrip(LStrip(text))

\* Mutant: the command is lower-cased but not stripped.
NormalizeCommandNoStrip(command) == Lower(command)

\* cmd = command.lower().strip()
NormalizeCommand(command) == Strip(Lower(command))

\* The command words the code and its callers use.
W_start == <<"s", "t", "a", "r", "t">>
W_start_mowing == <<"s", "t", "a", "r", "t", "_", "m", "o", "w", "i", "n", "g">>
W_pause == <<"p", "a", "u", "s", "e">>
W_stop == <<"s", "t", "o", "p">>
W_dock == <<"d", "o", "c", "k">>
W_return == <<"r", "e", "t", "u", "r", "n">>
W_return_to_dock ==
    <<"r", "e", "t", "u", "r", "n", "_", "t", "o", "_", "d", "o", "c", "k">>
W_resume == <<"r", "e", "s", "u", "m", "e">>
W_edge_cut == <<"e", "d", "g", "e", "_", "c", "u", "t">>
W_fly == <<"f", "l", "y">>

\* No device-side invocation.
NoCall == [target |-> "", method |-> "", arg |-> ""]
Call(target, method, arg) == [target |-> target, method |-> method, arg |-> arg]

\* The outcome of send_command: the exception raised ("" when it returns) with its
\* message, and the device-side invocation made.
CmdOutcome(exc, msg, call) == [exc |-> exc, msg |-> msg, call |-> call]

\* target = mower_obj if mower_obj and hasattr(mower_obj, path)
\*          else cloud_dev if hasattr(cloud_dev, path) else None
TargetOf(caps, path) ==
    IF caps.mowerObj /\ path \in caps.mowerCaps THEN "mower"
    ELSE IF path \in caps.cloudCaps THEN "cloud_dev"
    ELSE ""

\* One branch of send_command: the first candidate present is invoked, else the
\* queued command if the parent has queue_command, else the branch falls through
\* and send_command returns.  An exception of the invocation becomes CommandError.
RECURSIVE TryCandidates(_, _, _, _)
TryCandidates(caps, candidates, queued, invokeOk) ==
    IF candidates # <<>>
    THEN IF TargetOf(caps, Head(candidates)) # ""
         THEN IF invokeOk
              THEN CmdOutcome("", "", Call(TargetOf(caps, Head(candidates)),
                                          Head(candidates), ""))
              ELSE CmdOutcome("CommandError", "Befehl fehlgeschlagen",
                              Call(TargetOf(caps, Head(candidates)),
                                   Head(candidates), ""))
         ELSE TryCandidates(caps, Tail(candidates), queued, invokeOk)
    ELSE IF "queue_command" \in caps.cloudCaps
         THEN IF invokeOk
              THEN CmdOutcome("", "", Call("cloud_dev", "queue_command", queued))
              ELSE CmdOutcome("CommandError", "Befehl fehlgeschlagen",
                              Call("cloud_dev", "queue_command", queued))
         ELSE CmdOutcome("", "", NoCall)

StartCandidates == <<"start_map_hash", "start", "start_sync">>
StopCandidates == <<"pause_device", "stop_device", "stop">>
DockCandidates == <<"return_to_dock">>

\* send_command once the manager is at hand: mgr.cloud(), the mower object, and
\* the branch of the normalised command.
DispatchOn(cmd, caps, invokeOk) ==
    IF ~caps.cloudDev
    THEN CmdOutcome("CommandError", "Cloud-Verbindung zum Geraet nicht verfuegbar", NoCall)
    ELSE IF cmd \in {W_start, W_start_mowing}
         THEN TryCandidates(caps, StartCandidates, "start", invokeOk)
    ELSE IF cmd \in {W_pause, W_stop}
         THEN TryCandidates(caps, StopCandidates, "stop", invokeOk)
    ELSE IF cmd \in {W_dock, W_return, W_return_to_dock}
         THEN TryCandidates(caps, DockCandidates, "return_to_dock", invokeOk)
    ELSE CmdOutcome("CommandError", "Unbekannter Befehl", NoCall)

Dispatch(command, caps, invokeOk) == DispatchOn(NormalizeCommand(command), caps, invokeOk)

\* The methods a device handle or its parent may offer.
DeviceMethods ==
    {"start_map_hash", "start", "start_sync", "pause_device", "stop_device", "stop",
     "return_to_dock", "resume_device", "start_edge_cut"}

Caps(cloudDev, mowerObj, mowerCaps, cloudCaps) ==
    [cloudDev |-> cloudDev, mowerObj |-> mowerObj, mowerCaps |-> mowerCaps,
     cloudCaps |-> cloudCaps]

\* The capability sets drawn: nothing, one method, or every method, on each object,
\* with or without queue_command on the parent.
MethodSets == {{}} \cup {{m} : m \in DeviceMethods} \cup {DeviceMethods}
CapsUniverse ==
    {Caps(FALSE, FALSE, {}, {})}
    \cup {Caps(TRUE, FALSE, {}, c \cup q) :
            c \in MethodSets, q \in {{}, {"queue_command"}}}
    \cup {Caps(TRUE, TRUE, mc, c \cup q) :
            mc \in {{}, {"start"}, {"stop"}, DeviceMethods},
            c \in {{}, {"start_map_hash"}, {"start_sync"}, {"pause_device"}},
            q \in {{}, {"queue_command"}}}

\* The casings and paddings of a command word.
UpperChar(ch) ==
    IF \E i \in 1..Len(LowerLetters) : LowerLetters[i] = ch
    THEN UpperLetters[CHOOSE i \in 1..Len(LowerLetters) : LowerLetters[i] = ch]
    ELSE ch
Upper(text) == [i \in 1..Len(text) |-> UpperChar(text[i])]
Capitalized(text) ==
    [i \in 1..Len(text) |->
        IF i = 1 \/ (i > 1 /\ text[i - 1] = "_") THEN UpperChar(text[i]) ELSE text[i]]
Casings(word) == {word, Upper(word), Capitalized(word)}
Variants(word) ==
    {l \o w \o r : l \in {<<>>, <<" ">>}, w \in Casings(word),
                 r \in {<<>>, <<" ", "\t">>}}

\* The second call of a pair uses the plain lower-case words, the first a variant.
PlainCommands ==
    {W_start, W_start_mowing, W_pause, W_stop, W_dock, W_return, W_return_to_dock,
     W_resume, W_edge_cut, W_fly, <<>>}
RawCommands == UNION {Variants(w) : w \in PlainCommands}

NotCalled == CmdOutcome("not called", "", NoCall)

CmInit ==
    /\ cmCaps \in CapsUniverse
    /\ cmRaw \in {<<r, p>> : r \in RawCommands, p \in PlainCommands}
    /\ cmOut = <<NotCalled, NotCalled>>

CmIdle ==
    /\ cmCaps = Caps(FALSE, FALSE, {}, {})
    /\ cmRaw = <<W_start, W_start>>
    /\ cmOut = <<NotCalled, NotCalled>>

\* send_command for a device whose manager is cached: the dispatch and the awaited
\* invocation, which returns or raises.
SendCommandCall(i) ==
    /\ cmOut[i] = NotCalled
    /\ \A j \in 1..(i - 1) : cmOut[j] # NotCalled
    /\ \E invokeOk \in BOOLEAN :
          cmOut' = [cmOut EXCEPT ![i] = Dispatch(cmRaw[i], cmCaps, invokeOk)]
    /\ UNCHANGED <<cmCaps, cmRaw, cmOthers>>

(***************************************************************************)
(* get_device_status: the telemetry resolution                             *)
(***************************************************************************)
\* The coordinate limits of _clean, in 1/100000 degree.
LatLimit == 9000000
LonLimit == 18000000
NearZero == 10

Abs(n) == IF n < 0 THEN 0 - n ELSE n

\* _clean(p): None unless p is a pair within range and not near (0, 0).
Clean(p) ==
    IF p = NoPos \/ p.lat = NoneN \/ p.lon = NoneN THEN NoPos
    ELSE IF ~(Abs(p.lat) <= LatLimit /\ Abs(p.lon) <= LonLimit) THEN NoPos
    ELSE IF Abs(p.lat) < NearZero /\ Abs(p.lon) < NearZero THEN NoPos
    ELSE p

\* A point of state.location: taken when both numbers are there and not both 0.
LocPoint(p) ==
    IF p.lat # NoneN /\ p.lon # NoneN /\ (p.lat # 0 \/ p.lon # 0) THEN p ELSE NoPos

\* lat = d.get("latitude") or d.get("lat") (and lon): a 0 reads as missing.
PropsPoint(p) ==
    IF TruthyN(p.lat) /\ TruthyN(p.lon) THEN p ELSE NoPos

\* What the manager shows at one query.  Of a properties bag only the first item
\* matching a concept is read, so each concept has one field; of the mode concept
\* at most one of the integer and the text field is set.
NoTelemetry ==
    [hasState |-> FALSE,
     locDev |-> NoPos, locRtk |-> NoPos, locDock |-> NoPos,
     spBatt |-> NoneN, spModeInt |-> NoneN, spModeStr |-> NoneS, spPos |-> NoPos,
     mpBatt |-> NoneN, mpModeInt |-> NoneN, mpModeStr |-> NoneS, mpPos |-> NoPos,
     deepBatt |-> NoneN, deepWm |-> NoneN, deepText |-> NoneS, deepPos |-> NoPos,
     online |-> "none",
     mowerPos |-> NoPos, mowerBatt |-> NoneN, mowerWmInt |-> NoneN,
     mowerWmStr |-> NoneS,
     workModeImport |-> TRUE]

\* Tier 1a: state.location (device, RTK, dock; the dock stands in for the device).
LocationTier(tel) ==
    LET dev == IF tel.hasState THEN LocPoint(tel.locDev) ELSE NoPos
        rtk == IF tel.hasState THEN LocPoint(tel.locRtk) ELSE NoPos
        dock == IF tel.hasState THEN LocPoint(tel.locDock) ELSE NoPos
    IN [pos |-> IF dev = NoPos /\ dock # NoPos THEN dock ELSE dev,
        rtk |-> rtk, dock |-> dock]

\* Tiers 1b to 1d: status_properties, mqtt_properties, the deep search.
PropertyTiers(tel, pos0) ==
    LET batt1 == tel.spBatt
        wm1 == tel.spModeInt
        text1 == tel.spModeStr
        pos1 == IF PropsPoint(tel.spPos) # NoPos THEN tel.spPos ELSE pos0
        useMp == batt1 = NoneN \/ text1 = NoneS
        batt2 == IF useMp /\ batt1 = NoneN THEN tel.mpBatt ELSE batt1
        wm2 == IF useMp /\ wm1 = NoneN THEN tel.mpModeInt ELSE wm1
        text2 == IF useMp /\ text1 = NoneS /\ wm2 = NoneN THEN tel.mpModeStr ELSE text1
        pos2 == IF useMp /\ pos1 = NoPos /\ PropsPoint(tel.mpPos) # NoPos
                THEN tel.mpPos ELSE pos1
        useDeep == batt2 = NoneN \/ text2 = NoneS \/ pos2 = NoPos \/ wm2 = NoneN
        batt3 == IF useDeep /\ batt2 = NoneN THEN tel.deepBatt ELSE batt2
        wm3 == IF useDeep /\ wm2 = NoneN THEN tel.deepWm ELSE wm2
        text3 == IF useDeep /\ text2 = NoneS THEN tel.deepText ELSE text2
        pos3 == IF useDeep /\ pos2 = NoPos
                   /\ tel.deepPos.lat # NoneN /\ tel.deepPos.lon # NoneN
                THEN tel.deepPos ELSE pos2
    IN IF tel.hasState
       THEN [battery |-> batt3, wm |-> wm3, text |-> text3, pos |-> pos3]
       ELSE [battery |-> NoneN, wm |-> NoneN, text |-> NoneS, pos |-> pos0]

\* Tier 2: mgr.cloud() and its mower model, tried while battery, status text and
\* position are all unset.
MowerTier(tel, r) ==
    IF r.battery = NoneN /\ r.text = NoneS /\ r.pos = NoPos
    THEN [battery |-> tel.mowerBatt,
          wm |-> IF tel.mowerWmInt # NoneN THEN tel.mowerWmInt ELSE r.wm,
          text |-> IF tel.mowerWmInt = NoneN THEN tel.mowerWmStr ELSE r.text,
          pos |-> IF tel.mowerPos.lat # NoneN /\ tel.mowerPos.lon # NoneN
                  THEN tel.mowerPos ELSE r.pos]
    ELSE r

\* The live fields of one query: tiers, work-mode decode, coordinate cleaning.
LiveFields(tel) ==
    LET loc == LocationTier(tel)
        r == MowerTier(tel, PropertyTiers(tel, loc.pos))
    IN [battery |-> r.battery,
        wm |-> r.wm,
        status |-> IF r.wm # NoneN THEN MapWorkMode(r.wm, tel.workModeImport)
                   ELSE r.text,
        pos |-> Clean(r.pos),
        dock |-> Clean(loc.dock),
        rtk |-> Clean(loc.rtk),
        online |-> IF tel.hasState THEN tel.online ELSE "none"]

\* LastTelemetry and the last-known cache update of one query.
LastTelemetry(battery, position, work_mode, updated_at) ==
    [battery |-> battery, position |-> position, work_mode |-> work_mode,
     updated_at |-> updated_at]
NoLast == LastTelemetry(NoneN, NoPos, NoneN, 0)

LastOf(cache, id) == IF id \in DOMAIN cache THEN cache[id] ELSE NoLast

UpdateLastKnown(cache, id, f, nowTs) ==
    IF f.battery # NoneN \/ f.wm # NoneN \/ f.pos # NoPos
    THEN LET lk == LastOf(cache, id)
             new == LastTelemetry(
                        IF f.battery # NoneN THEN f.battery ELSE lk.battery,
                        IF f.pos # NoPos THEN f.pos ELSE lk.position,
                        IF f.wm # NoneN THEN f.wm ELSE lk.work_mode,
                        nowTs)
         IN [k \in (DOMAIN cache) \cup {id} |-> IF k = id THEN new ELSE cache[k]]
    ELSE cache

\* The result of get_device_status: src says which path produced it ("" for none).
StatusResult(src, battery, status, position, source, dock, rtk, online) ==
    [src |-> src, battery |-> battery, status |-> status, position |-> position,
     position_source |-> source, dock_position |-> dock, rtk_position |-> rtk,
     online |-> online]
NoStatus == StatusResult("", NoneN, NoneS, NoPos, "", NoPos, NoPos, "none")

\* The live dict, or NoStatus when live stays None; cache is the last-known cache
\* after the update.
LiveResult(cache, id, f) ==
    LET lk == LastOf(cache, id)
        posOut == IF f.pos # NoPos THEN f.pos ELSE lk.position
        source == IF f.pos # NoPos THEN "live"
                  ELSE IF lk.position # NoPos THEN "cached" ELSE ""
    IN IF f.battery # NoneN \/ f.status # NoneS \/ posOut # NoPos \/ f.online # "none"
       THEN StatusResult("live", f.battery, f.status, posOut, source, f.dock, f.rtk,
                         f.online)
       ELSE NoStatus

\* The listing fallback of get_device_status: the first summary with the id.
FallbackResult(summaries, id) ==
    IF \E i \in 1..Len(summaries) : summaries[i].id = id
    THEN LET d == summaries[CHOOSE i \in 1..Len(summaries) :
                        /\ summaries[i].id = id
                        /\ \A j \in 1..(i - 1) : summaries[j].id # id]
         IN StatusResult("listing", d.battery, d.status, d.position, "", NoPos, NoPos,
                         "none")
    ELSE NoStatus

(***************************************************************************)
(* The session store, MammotionService.logout and resolve_session          *)
(***************************************************************************)
\* Bound: the store calls (create, logout, resolve, delete) started in all.
MaxSessionCalls == 3

\* for obj in (session.manager, session.client): for meth in ("close",
\* "disconnect", "shutdown", "logout"): the pairs in the order visited.
LogoutMethods == <<"close", "disconnect", "shutdown", "logout">>
LogoutPairs ==
    [p \in 1..8 |-> <<IF p <= 4 THEN "manager" ELSE "client",
                      LogoutMethods[((p - 1) % 4) + 1]>>]

\* The resources a session may hold (0 is None) and the methods each one has.
MethodsOf(obj) ==
    IF obj = 1 THEN {"close", "logout"}
    ELSE IF obj = 2 THEN {"disconnect", "shutdown", "close"}
    ELSE {}

\* except Exception: pass
\* Mutant: the exception of a teardown method leaves logout.
SwallowsNothing(failed) == ~failed
Swallows(failed) == TRUE

IdleLogout ==
    [pc |-> "idle", sid |-> 0, session |-> AuthSession("", 0, FALSE), p |-> 0,
     attempted |-> {}, failed |-> {}]
NoResolve == [sid |-> 0, result |-> "", afterLogout |-> FALSE]

LoInit ==
    /\ lo = IdleLogout
    /\ rs = NoResolve
    /\ loCalls = 0

LoIdle == LoInit

\* What the store actions leave alone.
loFrame ==
    <<nextCloud, lgPc, lgEmail, lgCloud, lgMammotion, lgPolls, lgResult, lgErr,
      lgFailed, lgCalls, loOthers>>

\* create_session_for(email, client, manager), and the last line of login:
\* _store_session(AuthSession(...)).
CreateSessionFor ==
    /\ loCalls < MaxSessionCalls
    /\ loCalls' = loCalls + 1
    /\ \E client \in {0, 1}, manager \in {0, 2} :
          store' = StoreSession(store, nextSid,
                       [AuthSession("user@example.org", client, FALSE)
                           EXCEPT !.manager = manager])
    /\ nextSid' = nextSid + 1
    /\ UNCHANGED <<lo, rs, loFrame>>

\* The last lines of login: _store_session(AuthSession(email=email, client=cloud,
\* manager=None, mammotion=mammotion_obj)), with or without the orchestrator.
LoginStoresSession ==
    /\ loCalls < MaxSessionCalls
    /\ loCalls' = loCalls + 1
    /\ \E mammotion \in BOOLEAN :
          store' = StoreSession(store, nextSid,
                                AuthSession("user@example.org", 1, mammotion))
    /\ nextSid' = nextSid + 1
    /\ UNCHANGED <<lo, rs, loFrame>>

\* logout(session) is called with a session of the store.
LogoutStart ==
    /\ lo.pc \in {"idle", "done", "raised"}
    /\ loCalls < MaxSessionCalls
    /\ loCalls' = loCalls + 1
    /\ \E sid \in DOMAIN store :
          lo' = [IdleLogout EXCEPT !.pc = "running", !.sid = sid,
                                   !.session = store[sid], !.p = 1]
    /\ UNCHANGED <<store, nextSid, rs, loFrame>>

\* One pair of the two loops: skipped when the object is None or lacks the method,
\* else the method is called and returns or raises.
LogoutStep ==
    /\ lo.pc = "running"
    /\ LET pair == LogoutPairs[lo.p]
           obj == IF pair[1] = "manager" THEN lo.session.manager ELSE lo.session.client
           next == IF lo.p = 8 THEN "done" ELSE "running"
       IN IF obj = 0 \/ pair[2] \notin MethodsOf(obj)
          THEN lo' = [lo EXCEPT !.pc = next, !.p = lo.p + 1]
          ELSE \E failed \in BOOLEAN :
                  lo' = [lo EXCEPT !.pc = IF Swallows(failed) THEN next ELSE "raised",
                                   !.p = lo.p + 1,
                                   !.attempted = lo.attempted \cup {pair},
                                   !.failed = IF failed THEN lo.failed \cup {pair}
                                              ELSE lo.failed]
    /\ UNCHANGED <<store, nextSid, rs, loCalls, loFrame>>

\* resolve_session(sid) -> _get_session(sid)
ResolveSession ==
    /\ loCalls < MaxSessionCalls
    /\ loCalls' = loCalls + 1
    /\ \E sid \in 1..nextSid :
          rs' = [sid |-> sid,
                 result |-> IF sid \in DOMAIN store THEN "session" ELSE "AuthError",
                 afterLogout |-> lo.pc = "done" /\ lo.sid = sid]
    /\ UNCHANGED <<store, nextSid, lo, loFrame>>

\* delete_session(sid) -> _SESSION_STORE.pop(sid, None)
DeleteSession ==
    /\ loCalls < MaxSessionCalls
    /\ loCalls' = loCalls + 1
    /\ \E sid \in 1..nextSid :
          store' = [k \in (DOMAIN store) \ {sid} |-> store[k]]
    /\ UNCHANGED <<nextSid, lo, rs, loFrame>>

(***************************************************************************)
(* DeviceManager.command and the EventBus                                   *)
(***************************************************************************)
\* Bound: the DeviceManager calls started in all.
MaxDmCalls == 4

DmDevices == {"d1", "d2"}

\* f"device:{device_id}"
Topic(id) == <<"device", id>>

\* except Exception: pass  (around the status refresh and the publish)
\* Mutant: the failure of the refresh leaves command.
RefreshErrorRaised(e) == e
RefreshError(e) == ""

\* EventBus.publish: await self._topics[topic].put(payload)
Publish(topics, topic, payload) ==
    [k \in (DOMAIN topics) \cup {topic} |->
        IF k = topic
        THEN (IF topic \in DOMAIN topics THEN topics[topic] ELSE <<>>) \o <<payload>>
        ELSE topics[k]]

IdleCmd ==
    [pc |-> "idle", id |-> "", sent |-> FALSE, refreshed |-> FALSE, put |-> <<>>,
     exc |-> ""]

DmInit ==
    /\ dmClient = FALSE
    /\ dmCmd = IdleCmd
    /\ dmTopics = [k \in {} |-> <<>>]
    /\ dmCalls = 0

DmIdle == DmInit

\* authenticate: self._client = PyMammotionClient() if it is None, then the login.
DmAuthenticate ==
    /\ dmCalls < MaxDmCalls
    /\ dmCalls' = dmCalls + 1
    /\ dmClient' = TRUE
    /\ UNCHANGED <<dmCmd, dmTopics, dmOthers>>

\* command(device_id, action): the guard, then await self._client.send_command.
DmCommand(id) ==
    /\ dmCmd.pc \in {"idle", "done"}
    /\ dmCalls < MaxDmCalls
    /\ dmCalls' = dmCalls + 1
    /\ dmCmd' = IF dmClient THEN [IdleCmd EXCEPT !.pc = "send", !.id = id]
                ELSE [IdleCmd EXCEPT !.pc = "done", !.id = id, !.exc = "Not authenticated"]
    /\ UNCHANGED <<dmClient, dmTopics, dmOthers>>

\* send_command returned, and get_status is awaited, or it raised.
DmSendReturns ==
    /\ dmCmd.pc = "send"
    /\ \E ok \in BOOLEAN :
          dmCmd' = IF ok THEN [dmCmd EXCEPT !.pc = "status", !.sent = TRUE]
                   ELSE [dmCmd EXCEPT !.pc = "done", !.exc = "RuntimeError"]
    /\ UNCHANGED <<dmClient, dmTopics, dmCalls, dmOthers>>

\* get_status returned a status, which is published, or it raised.
DmStatusReturns ==
    /\ dmCmd.pc = "status"
    /\ \E ok \in BOOLEAN, status \in {"mowing", "charging"} :
          IF ok
          THEN /\ dmTopics' = Publish(dmTopics, Topic(dmCmd.id), status)
               /\ dmCmd' = [dmCmd EXCEPT !.pc = "done", !.refreshed = TRUE,
                                         !.put = <<Topic(dmCmd.id), status>>]
          ELSE /\ dmCmd' = [dmCmd EXCEPT !.pc = "done",
                                         !.exc = RefreshError("RuntimeError")]
               /\ UNCHANGED dmTopics
    /\ UNCHANGED <<dmClient, dmCalls, dmOthers>>

(***************************************************************************)
(* The Redis SessionManager: create, get, update and delete of a session    *)
(***************************************************************************)
\* Bound: the SessionManager calls started in all.
MaxRdCalls == 3

RdTasks == {"r1", "r2"}

\* A call: its method (op), its position, the sid, the session_info it read, its
\* result, and whether delete_session had returned True for the sid when it ended.
IdleRd == [op |-> "", pc |-> "idle", sid |-> 0, read |-> "", result |-> "", late |-> FALSE]

RdInit ==
    /\ rdKeys = [k \in {} |-> ""]
    /\ rdTask = [t \in RdTasks |-> IdleRd]
    /\ rdDeleted = {}
    /\ rdNext = 1
    /\ rdCalls = 0

RdIdle == RdInit

\* redis SETEX / DELETE on the session key.
Setex(keys, sid, info) == [k \in (DOMAIN keys) \cup {sid} |-> IF k = sid THEN info ELSE keys[k]]
Delete(keys, sid) == [k \in (DOMAIN keys) \ {sid} |-> keys[k]]

\* The call of task t returns result.
RdReturn(t, result) ==
    rdTask' = [rdTask EXCEPT ![t].pc = "done", ![t].result = result,
                             ![t].late = rdTask[t].sid \in rdDeleted]

\* get_session, update_session or delete_session is called with a sid that
\* create_session has returned; the call runs up to its first redis command.
RdCall(t, op) ==
    /\ rdTask[t].pc \in {"idle", "done"}
    /\ rdCalls < MaxRdCalls
    /\ rdCalls' = rdCalls + 1
    /\ \E sid \in 1..(rdNext - 1) :
          rdTask' = [rdTask EXCEPT ![t] = [IdleRd EXCEPT !.op = op, !.pc = "get", !.sid = sid]]
    /\ UNCHANGED <<rdKeys, rdDeleted, rdNext, rdOthers>>

\* create_session: the SETEX of the new session (the user-sessions set is not
\* modelled), or the SessionError when redis fails.
RdCreate(t) ==
    /\ rdTask[t].pc \in {"idle", "done"}
    /\ rdCalls < MaxRdCalls
    /\ rdCalls' = rdCalls + 1
    /\ rdNext' = rdNext + 1
    /\ \E ok \in BOOLEAN :
          IF ok
          THEN /\ rdKeys' = Setex(rdKeys, rdNext, "created")
               /\ rdTask' = [rdTask EXCEPT ![t] =
                                [IdleRd EXCEPT !.op = "create", !.pc = "done",
                                               !.sid = rdNext, !.result = "sid"]]
          ELSE /\ rdTask' = [rdTask EXCEPT ![t] =
                                [IdleRd EXCEPT !.op = "create", !.pc = "done",
                                               !.result = "SessionError"]]
               /\ UNCHANGED rdKeys
    /\ UNCHANGED <<rdDeleted, rdOthers>>

\* session_data = await redis_client.get(session_key): absent (get and update
\* return None / False; delete goes on to DELETE), present, or redis raised.
RdGet(t) ==
    /\ rdTask[t].pc = "get"
    /\ \E ok \in BOOLEAN :
          IF ~ok
          THEN RdReturn(t, IF rdTask[t].op = "get" THEN "None" ELSE "False")
          ELSE IF rdTask[t].op = "delete"
          THEN rdTask' = [rdTask EXCEPT ![t].pc = "delete"]
          ELSE IF rdTask[t].sid \in DOMAIN rdKeys
          THEN rdTask' = [rdTask EXCEPT ![t].pc = "setex",
                                        ![t].read = rdKeys[rdTask[t].sid]]
          ELSE RdReturn(t, IF rdTask[t].op = "get" THEN "None" ELSE "False")
    /\ UNCHANGED <<rdKeys, rdDeleted, rdNext, rdCalls, rdOthers>>

\* await redis_client.setex(session_key, expire_seconds, json.dumps(session_info)):
\* the write-back of get_session and update_session, then their return.
RdSetex(t) ==
    /\ rdTask[t].pc = "setex"
    /\ \E ok \in BOOLEAN :
          IF ok
          THEN /\ rdKeys' = Setex(rdKeys, rdTask[t].sid,
                                  IF rdTask[t].op = "get" THEN "touched" ELSE "updated")
               /\ RdReturn(t, IF rdTask[t].op = "get" THEN "session_info" ELSE "True")
          ELSE /\ RdReturn(t, IF rdTask[t].op = "get" THEN "None" ELSE "False")
               /\ UNCHANGED rdKeys
    /\ UNCHANGED <<rdDeleted, rdNext, rdCalls, rdOthers>>

\* deleted = await redis_client.delete(session_key); return bool(deleted)
RdDelete(t) ==
    /\ rdTask[t].pc = "delete"
    /\ \E ok \in BOOLEAN :
          IF ok
          THEN /\ rdKeys' = Delete(rdKeys, rdTask[t].sid)
               /\ rdDeleted' = IF rdTask[t].sid \in DOMAIN rdKeys
                               THEN rdDeleted \cup {rdTask[t].sid} ELSE rdDeleted
               /\ rdTask' = [rdTask EXCEPT
                               ![t].pc = "done",
                               ![t].result = IF rdTask[t].sid \in DOMAIN rdKeys
                                             THEN "True" ELSE "False",
                               ![t].late = rdTask[t].sid \in rdDeleted]
          ELSE /\ RdReturn(t, "False")
               /\ UNCHANGED <<rdKeys, rdDeleted>>
    /\ UNCHANGED <<rdNext, rdCalls, rdOthers>>

(***************************************************************************)
(* MammotionModel: login and logout on one model                            *)
(***************************************************************************)
\* Bound: the login and logout calls made on the model.
MaxModelCalls == 5

ApiModes == {"real", "pymammotion", "mock"}
ModelEmails == {"a@example.com", "b@example.com"}

\* __init__ in the given mode: a client object exists in every mode but mock.
NewModel(mode) ==
    [api_mode |-> mode, api_client |-> mode # "mock", is_connected |-> FALSE,
     credentials |-> NoneS]

NoModelCall == [op |-> "", email |-> "", accepted |-> FALSE, result |-> "", afterLogout |-> FALSE]

MmInit ==
    /\ mmModel \in {NewModel(mode) : mode \in ApiModes}
    /\ mmLast = NoModelCall
    /\ mmLoggedOut = FALSE
    /\ mmCalls = 0

MmIdle ==
    /\ mmModel = NewModel("mock")
    /\ mmLast = NoModelCall
    /\ mmLoggedOut = FALSE
    /\ mmCalls = 0

\* The branch of login that stores the credentials and returns True.
LoginSucceeds(mdl, email) == [mdl EXCEPT !.credentials = email, !.is_connected = TRUE]

\* success = await self._api_client.login(email, password) in real mode: an
\* AttributeError when _api_client is None, else the backend's answer.
RealLogin(mdl, answer) ==
    IF ~mdl.api_client THEN "raised" ELSE answer

\* MammotionModel.login(email, password); accepted says whether the backend
\* accepts the credentials, raises whether the backend call raises instead.
ModelLogin(email, accepted, raises) ==
    /\ mmCalls < MaxModelCalls
    /\ mmCalls' = mmCalls + 1
    /\ LET answer == IF raises THEN "raised" ELSE IF accepted THEN "True" ELSE "False"
           outcome == IF mmModel.api_mode = "real" THEN RealLogin(mmModel, answer)
                      ELSE "True"
       IN /\ mmModel' = IF outcome = "True" THEN LoginSucceeds(mmModel, email) ELSE mmModel
          /\ mmLast' = [op |-> "login", email |-> email, accepted |-> accepted /\ ~raises,
                        result |-> IF outcome = "True" THEN "True" ELSE "False",
                        afterLogout |-> mmLoggedOut]
    /\ UNCHANGED <<mmLoggedOut, mmOthers>>

\* MammotionModel.logout()
ModelLogout ==
    /\ mmCalls < MaxModelCalls
    /\ mmCalls' = mmCalls + 1
    /\ mmModel' = [mmModel EXCEPT !.is_connected = FALSE, !.credentials = NoneS,
                                  !.api_client = FALSE]
    /\ mmLast' = [NoModelCall EXCEPT !.op = "logout", !.afterLogout = mmLoggedOut]
    /\ mmLoggedOut' = TRUE
    /\ UNCHANGED mmOthers

(***************************************************************************)
(* PyMammotionClient: login with retries, the guarded requests, with_retry  *)
(***************************************************************************)
\* max_retries of __init__.
MaxRetries == 3

\* Bound: the client calls (login, close, requests) started in all.
MaxClientCalls == 3

\* with_retry: if attempt < self._max_retries - 1: await asyncio.sleep(...)
\* Mutant: the sleep follows every failed attempt.
SleepsAfterAlways(attempt) == TRUE
SleepsAfter(attempt) == attempt < MaxRetries - 1

\* The client after __init__.
FreshClient ==
    [http |-> FALSE, cloud |-> FALSE, mgr |-> "none", authenticated |-> FALSE,
     last_login_time |-> NoneN]

\* Mutant: the cleanup leaves _authenticated as it is.
CleanupKeepsAuth(c) == [FreshClient EXCEPT !.authenticated = c.authenticated]

\* _cleanup_connection
CleanupConnection(c) == FreshClient

\* if not self._mgr or not self._authenticated: raise RuntimeError("Not authenticated")
NotAuthenticated(c) == c.mgr = "none" \/ ~c.authenticated

\* A request: the method called (op), its position, whether the guard let it pass
\* (passed), the lifecycle event it started after (after), the cloud contacts it
\* made, and for with_retry the attempt, the calls of the wrapped operation, the
\* sleeps, the failed probes and the last error.
IdleReq ==
    [op |-> "", pc |-> "idle", passed |-> FALSE, after |-> "", contacts |-> 0,
     attempt |-> 0, opCalls |-> 0, opOk |-> FALSE, sleeps |-> 0, probeFailed |-> 0,
     lastError |-> <<>>, result |-> "", exc |-> "", carried |-> <<>>]

ClInit ==
    /\ pmc = FreshClient
    /\ clLogin = [pc |-> "fresh", attempt |-> 0]
    /\ clReq = IdleReq
    /\ clCalls = 0

ClIdle == ClInit

LoginRunning == clLogin.pc \in {"http", "init", "sleep"}

\* login: async with self._lock, the first attempt up to await login_by_email.
ClientLogin ==
    /\ ~LoginRunning
    /\ clCalls < MaxClientCalls
    /\ clCalls' = clCalls + 1
    /\ clLogin' = [pc |-> "http", attempt |-> 0]
    /\ pmc' = [pmc EXCEPT !.http = TRUE]
    /\ UNCHANGED <<clReq, clOthers>>

\* except Exception: _cleanup_connection, then the sleep or, after the last
\* attempt, the RuntimeError.
LoginAttemptFails ==
    /\ pmc' = CleanupConnection(pmc)
    /\ clLogin' = [clLogin EXCEPT !.pc = IF clLogin.attempt < MaxRetries - 1
                                         THEN "sleep" ELSE "failed"]

\* login_by_email returned a response with a token, returned none, or raised.
ClientLoginHttp ==
    /\ clLogin.pc = "http"
    /\ \E answer \in {"token", "no token", "raised"} :
          IF answer = "token"
          THEN /\ pmc' = [pmc EXCEPT !.cloud = TRUE, !.mgr = "created"]
               /\ clLogin' = [clLogin EXCEPT !.pc = "init"]
          ELSE LoginAttemptFails
    /\ UNCHANGED <<clReq, clCalls, clOthers>>

\* init_cloud_connection returned or raised.
ClientLoginInit ==
    /\ clLogin.pc = "init"
    /\ \/ /\ pmc' = [pmc EXCEPT !.mgr = "ready", !.authenticated = TRUE,
                                      !.last_login_time = 1]
          /\ clLogin' = [clLogin EXCEPT !.pc = "ok"]
       \/ LoginAttemptFails
    /\ UNCHANGED <<clReq, clCalls, clOthers>>

\* The sleep before the next attempt is over: self._http = MammotionHTTP().
ClientLoginSleep ==
    /\ clLogin.pc = "sleep"
    /\ clLogin' = [pc |-> "http", attempt |-> clLogin.attempt + 1]
    /\ pmc' = [pmc EXCEPT !.http = TRUE]
    /\ UNCHANGED <<clReq, clCalls, clOthers>>

\* close: async with self._lock: _cleanup_connection.
ClientClose ==
    /\ ~LoginRunning
    /\ clCalls < MaxClientCalls
    /\ clCalls' = clCalls + 1
    /\ pmc' = CleanupConnection(pmc)
    /\ clLogin' = [pc |-> "closed", attempt |-> 0]
    /\ UNCHANGED <<clReq, clOthers>>

\* with_retry after a failed attempt: last_error = e, then the sleep or, after the
\* last attempt, RuntimeError("Operation failed after ... attempts: {last_error}").
AttemptFailed(req, error) ==
    IF SleepsAfter(req.attempt)
    THEN [req EXCEPT !.pc = "sleep", !.lastError = error, !.sleeps = req.sleeps + 1]
    ELSE [req EXCEPT !.pc = "done", !.lastError = error, !.exc = "Operation failed",
                     !.carried = error]

\* with_retry at the top of an attempt: ensure_connection, whose health_check
\* answers False at once for an unauthenticated client and else awaits list_devices.
StartAttempt(req, c) ==
    IF NotAuthenticated(c)
    THEN AttemptFailed([req EXCEPT !.probeFailed = req.probeFailed + 1],
                       <<"Connection lost", req.attempt>>)
    ELSE [req EXCEPT !.pc = "probe", !.contacts = req.contacts + 1]

\* list_devices, get_status, send_command, health_check or with_retry is called.
ClientRequest(op) ==
    /\ clReq.pc \in {"idle", "done"}
    /\ clCalls < MaxClientCalls
    /\ clCalls' = clCalls + 1
    /\ LET req == [IdleReq EXCEPT !.op = op, !.after = clLogin.pc,
                                  !.passed = ~NotAuthenticated(pmc)]
       IN clReq' =
            IF op = "with_retry" THEN StartAttempt(req, pmc)
            ELSE IF ~NotAuthenticated(pmc)
                 THEN [req EXCEPT !.pc = "cloud", !.contacts = 1]
            ELSE IF op = "health_check" THEN [req EXCEPT !.pc = "done", !.result = "False"]
            ELSE [req EXCEPT !.pc = "done", !.exc = "Not authenticated"]
    /\ UNCHANGED <<pmc, clLogin, clOthers>>

\* The cloud call of list_devices, get_status, send_command or health_check
\* returned or raised.
ClientCloudReturns ==
    /\ clReq.pc = "cloud"
    /\ \E ok \in BOOLEAN :
          clReq' = IF clReq.op = "health_check"
                   THEN [clReq EXCEPT !.pc = "done",
                                      !.result = IF ok THEN "True" ELSE "False"]
                   ELSE IF ok THEN [clReq EXCEPT !.pc = "done", !.result = "value"]
                   ELSE [clReq EXCEPT !.pc = "done", !.exc = "RuntimeError"]
    /\ UNCHANGED <<pmc, clLogin, clCalls, clOthers>>

\* with_retry: the list_devices of the health probe returned (the wrapped operation
\* is invoked) or raised (health_check answers False, ensure_connection raises).
ClientProbeReturns ==
    /\ clReq.pc = "probe"
    /\ \E ok \in BOOLEAN :
          clReq' = IF ok
                   THEN [clReq EXCEPT !.pc = "operation", !.opCalls = clReq.opCalls + 1]
                   ELSE AttemptFailed(
                            [clReq EXCEPT !.probeFailed = clReq.probeFailed + 1],
                            <<"Connection lost", clReq.attempt>>)
    /\ UNCHANGED <<pmc, clLogin, clCalls, clOthers>>

\* with_retry: the wrapped operation returned or raised.
ClientOperationReturns ==
    /\ clReq.pc = "operation"
    /\ \E ok \in BOOLEAN :
          clReq' = IF ok
                   THEN [clReq EXCEPT !.pc = "done", !.opOk = TRUE, !.result = "value"]
                   ELSE AttemptFailed(clReq, <<"operation error", clReq.attempt>>)
    /\ UNCHANGED <<pmc, clLogin, clCalls, clOthers>>

\* with_retry: the sleep is over, the next attempt starts.
ClientRetrySleep ==
    /\ clReq.pc = "sleep"
    /\ clReq' = StartAttempt([clReq EXCEPT !.attempt = clReq.attempt + 1], pmc)
    /\ UNCHANGED <<pmc, clLogin, clCalls, clOthers>>

(***************************************************************************)
(* One session of MammotionService: list_devices, _get_or_create_manager,  *)
(* get_device_status and send_command as concurrent asyncio tasks          *)
(***************************************************************************)
Tasks == {"t1", "t2"}

\* Bound: the service calls started in all.
MaxOps == 3

\* No manager; a manager handle is the identity (a positive number) of the object.
NoMgr == 0

\* The devices of the account, the listing item with out-of-range coordinates, and
\* the ids callers ask for.
D1 == Device("dev1", "Luba 2", "Luba-AAA", "Luba2AWD", "Luba 2 AWD", "mower", "ident1")
D4 == Device("dev4", "Yuka", "Yuka-CCC", "", "Yuka Mini", "mower", "")
FarItem ==
    [iotId |-> "dev1", nickName |-> "Luba 2", productModel |-> "Luba2AWD",
     latitude |-> 20000000, longitude |-> 1300000]
QueryIds == {"dev1", "dev4"}

\* What list_binding_by_account does at one call: raises or returns resp; cloudAttr is
\* cloud.devices_by_account_response afterwards, orchestrator the listing the
\* Mammotion fallback can read (NoResp: none).
Answer(raises, resp, cloudAttr, orchestrator) ==
    [raises |-> raises, resp |-> resp, cloudAttr |-> cloudAttr,
     orchestrator |-> orchestrator]
ListingAnswers ==
    { Answer(TRUE, NoResp, NoResp, NoResp),
      Answer(TRUE, NoResp, NoResp, TypedResp(<<D1>>)),
      Answer(FALSE, TypedResp(<<D1>>), TypedResp(<<D1>>), NoResp),
      Answer(FALSE, TypedResp(<<D1, D4>>), TypedResp(<<D1, D4>>), NoResp),
      Answer(FALSE, DictObjResp("devices", FALSE, <<FarItem>>), NoResp, NoResp),
      Answer(FALSE, FlatListResp(<<D1>>), NoResp, NoResp) }

\* The telemetry a manager may show at one query.
SvTelemetry ==
    { NoTelemetry,
      [NoTelemetry EXCEPT !.hasState = TRUE, !.spBatt = 80, !.mpModeInt = 13],
      [NoTelemetry EXCEPT !.hasState = TRUE, !.locDev = Pos(5252000, 1340500)],
      [NoTelemetry EXCEPT !.hasState = TRUE, !.spPos = Pos(20000000, 1300000)],
      [NoTelemetry EXCEPT !.hasState = TRUE, !.deepPos = Pos(5, -3)],
      [NoTelemetry EXCEPT !.hasState = TRUE, !.spModeStr = "Working", !.online = "true"],
      [NoTelemetry EXCEPT !.mowerPos = Pos(20000000, 1300000), !.mowerWmStr = "MOWING"] }

\* The device capabilities and the commands of the session's send_command calls.
SvCaps ==
    { Caps(FALSE, FALSE, {}, {}),
      Caps(TRUE, FALSE, {}, {"start_map_hash"}) }
SvCommands == {W_start}

\* What the environment decides during one step of a call.
Env(tel, caps, invokeOk, construct, syncAwaits) ==
    [tel |-> tel, caps |-> caps, invokeOk |-> invokeOk,
     construct |-> construct, syncAwaits |-> syncAwaits]
NoEnv == Env(NoTelemetry, Caps(FALSE, FALSE, {}, {}), TRUE, "ok", FALSE)

\* The decisions that matter when the manager is handed to the caller: what the
\* manager shows (get_device_status) or what the device offers (send_command).
ResultEnvs(rec) ==
    IF rec.op = "send"
    THEN { [NoEnv EXCEPT !.caps = caps, !.invokeOk = ok] :
             caps \in SvCaps, ok \in BOOLEAN }
    ELSE { [NoEnv EXCEPT !.tel = tel] : tel \in SvTelemetry }

\* The decisions that matter from the direct construction on: it fails, it awaits
\* start_sync, or it hands the manager over at once.
ConstructEnvs(rec) ==
    { [NoEnv EXCEPT !.construct = con] : con \in {"ImportError", "TypeError", "ValueError"} }
    \cup { [NoEnv EXCEPT !.syncAwaits = TRUE] }
    \cup ResultEnvs(rec)

\* A task: its position (pc), the public call it runs (op), that call's arguments,
\* who called list_devices (from), and what the call left behind.
IdleTask ==
    [pc |-> "idle", op |-> "", dev |-> "", command |-> <<>>, from |-> "",
     known |-> FALSE, mgr |-> NoMgr, pending |-> NoMgr, fast |-> FALSE,
     cloudCalls |-> 0, built |-> FALSE, list |-> <<>>, status |-> NoStatus,
     cmd |-> NotCalled, exc |-> "", unlocked |-> FALSE, conFailed |-> FALSE]

SvInit ==
    /\ lock = ""
    /\ devices_by_iot = EmptyIndex
    /\ managers_by_iot = [k \in {} |-> NoMgr]
    /\ last_known_by_iot = [k \in {} |-> NoLast]
    /\ session_mammotion \in BOOLEAN
    /\ now = 0
    /\ nextMgr = 1
    /\ ops = 0
    /\ task = [t \in Tasks |-> IdleTask]

SvIdle ==
    /\ lock = ""
    /\ devices_by_iot = EmptyIndex
    /\ managers_by_iot = [k \in {} |-> NoMgr]
    /\ last_known_by_iot = [k \in {} |-> NoLast]
    /\ session_mammotion = FALSE
    /\ now = 0
    /\ nextMgr = 1
    /\ ops = 0
    /\ task = [t \in Tasks |-> IdleTask]

\* The session as one step sees it, and the effect of a step: the task's new record,
\* whether it holds the lock afterwards, and the session it leaves.
Session ==
    [devs |-> devices_by_iot, mgrs |-> managers_by_iot, cache |-> last_known_by_iot,
     nextMgr |-> nextMgr, now |-> now, mammotion |-> session_mammotion]
Eff(rec, held, s) == [task |-> rec, held |-> held, s |-> s]

Apply(t, e) ==
    /\ task' = [task EXCEPT ![t] = e.task]
    /\ lock' = IF e.held THEN t ELSE IF lock = t THEN "" ELSE lock
    /\ devices_by_iot' = e.s.devs
    /\ managers_by_iot' = e.s.mgrs
    /\ last_known_by_iot' = e.s.cache
    /\ nextMgr' = e.s.nextMgr
    /\ now' = e.s.now
    /\ UNCHANGED <<session_mammotion, ops, svOthers>>

\* session.managers_by_iot.get(str(device_id))
\* Mutant: the cache lookup finds nothing.
CachedManagerNone(mgrs, id) == NoMgr
CachedManager(mgrs, id) == IF id \in DOMAIN mgrs THEN mgrs[id] ELSE NoMgr

\* ident is None or str(ident).strip() == ""
IdentityMissing(dev) == GetS(dev, "identityId") \in {NoneS, ""}

\* _get_or_create_manager returned mgr to its caller, which runs on without
\* suspending: get_device_status resolves the live fields, updates the last-known
\* cache and returns the live dict or turns to list_devices; send_command
\* dispatches.  The lock was released when _get_or_create_manager returned, so
\* the accesses to last_known_by_iot are made without it (unlocked).
Returned(rec, s, mgr, env) ==
    LET rec1 == [rec EXCEPT !.mgr = mgr, !.pending = NoMgr,
                            !.unlocked = (rec.op = "status")]
        nowTs == s.now + 1
        f == LiveFields(env.tel)
        cache2 == UpdateLastKnown(s.cache, rec.dev, f, nowTs)
        r == LiveResult(cache2, rec.dev, f)
        out == Dispatch(rec.command, env.caps, env.invokeOk)
    IN IF rec.op = "status"
       THEN Eff(IF r # NoStatus
                THEN [rec1 EXCEPT !.pc = "done", !.status = r]
                ELSE [rec1 EXCEPT !.pc = "ld_lock", !.from = "fallback"],
                FALSE, [s EXCEPT !.cache = cache2, !.now = nowTs])
       ELSE Eff([rec1 EXCEPT !.pc = "done", !.cmd = out, !.exc = out.exc], FALSE, s)

\* _get_or_create_manager raised exc: get_device_status swallows it and turns to
\* list_devices, send_command lets it through.
Raised(rec, s, exc) ==
    LET rec1 == [rec EXCEPT !.pending = NoMgr]
    IN IF rec.op = "status"
       THEN Eff([rec1 EXCEPT !.pc = "ld_lock", !.from = "fallback"], FALSE, s)
       ELSE Eff([rec1 EXCEPT !.pc = "done", !.exc = exc], FALSE, s)

\* session.managers_by_iot[str(device_id)] = mgr; return mgr
Store(rec, s, mgr, env) ==
    LET mgrs2 == [k \in (DOMAIN s.mgrs) \cup {rec.dev} |->
                     IF k = rec.dev THEN mgr ELSE s.mgrs[k]]
    IN Returned(rec, [s EXCEPT !.mgrs = mgrs2], mgr, env)

\* The direct construction: import, MammotionMixedDeviceManager(...), start_sync.
Construct(rec, s, env) ==
    IF env.construct = "ImportError"
    THEN Raised([rec EXCEPT !.conFailed = TRUE], s, "ServiceError")
    ELSE IF env.construct = "TypeError"
    THEN Raised([rec EXCEPT !.conFailed = TRUE], s, "ServiceError")
    ELSE IF env.construct # "ok"
    THEN Raised([rec EXCEPT !.conFailed = TRUE], s, env.construct)
    ELSE LET rec1 == [rec EXCEPT !.built = TRUE, !.pending = s.nextMgr]
             s1 == [s EXCEPT !.nextMgr = s.nextMgr + 1]
         IN IF env.syncAwaits
            THEN Eff([rec1 EXCEPT !.pc = "gm_sync", !.cloudCalls = rec.cloudCalls + 1],
                     TRUE, s1)
            ELSE Store(rec1, s1, s.nextMgr, env)

\* The orchestrator path when session.mammotion and its MQTT client are there,
\* else the direct construction.
Create(rec, s, env) ==
    IF s.mammotion
    THEN Eff([rec EXCEPT !.pc = "gm_mam", !.cloudCalls = rec.cloudCalls + 1], TRUE, s)
    ELSE Construct(rec, s, env)

\* The typed device is at hand: refresh it by list_binding_by_dev when its
\* identityId is missing, then create the manager.
WithDevice(rec, s, dev, env) ==
    IF IdentityMissing(dev)
    THEN Eff([rec EXCEPT !.pc = "gm_detail", !.cloudCalls = rec.cloudCalls + 1], TRUE, s)
    ELSE Create(rec, s, env)

\* The body of _get_or_create_manager once the lock is taken: the fast path, the
\* refresh by list_devices when the device is not indexed, else the creation.
Lookup(rec, s, env) ==
    IF CachedManager(s.mgrs, rec.dev) # NoMgr
    THEN Returned([rec EXCEPT !.fast = TRUE], s, CachedManager(s.mgrs, rec.dev), env)
    ELSE IF rec.dev \notin DOMAIN s.devs
    THEN Eff([rec EXCEPT !.pc = "ld_lock", !.from = "gocm",
                        !.cloudCalls = rec.cloudCalls + 1], TRUE, s)
    ELSE WithDevice(rec, s, s.devs[rec.dev], env)

\* The decisions that matter on the way Create and Lookup take from session s.
CreateEnvs(rec, s) == IF s.mammotion THEN {NoEnv} ELSE ConstructEnvs(rec)
LookupEnvs(rec, s) ==
    IF CachedManager(s.mgrs, rec.dev) # NoMgr THEN ResultEnvs(rec)
    ELSE IF rec.dev \notin DOMAIN s.devs THEN {NoEnv}
    ELSE IF IdentityMissing(s.devs[rec.dev]) THEN {NoEnv}
    ELSE CreateEnvs(rec, s)

\* list_devices returned or raised (err) to its caller.
ListingDone(rec, s, err, result, env) ==
    IF rec.from = "top"
    THEN Eff([rec EXCEPT !.pc = "done", !.list = result, !.exc = err], FALSE, s)
    ELSE IF rec.from = "fallback"
    THEN IF err # ""
         THEN Eff([rec EXCEPT !.pc = "done", !.exc = err], FALSE, s)
         ELSE IF FallbackResult(result, Str(rec.dev)) = NoStatus
         THEN Eff([rec EXCEPT !.pc = "done", !.exc = "NotFoundError"], FALSE, s)
         ELSE Eff([rec EXCEPT !.pc = "done",
                              !.status = FallbackResult(result, Str(rec.dev))],
                  FALSE, s)
    ELSE IF err # "" THEN Raised(rec, s, err)
    ELSE IF rec.dev \notin DOMAIN s.devs THEN Raised(rec, s, "NotFoundError")
    ELSE WithDevice(rec, s, s.devs[rec.dev], env)

\* The body of list_devices once list_binding_by_account answered.
Listing(rec, s, a, env) ==
    LET resp == IF ~a.raises THEN a.resp
                ELSE IF s.mammotion THEN a.orchestrator ELSE NoResp
        out == NormalizeListing(resp, a.cloudAttr)
    IN IF a.raises /\ resp = NoResp
       THEN ListingDone(rec, s, "ServiceError", <<>>, env)
       ELSE ListingDone(rec, [s EXCEPT !.devs = out.index], out.err, out.result, env)

(* The calls.  A call starts when its task is free; session.client is set for    *)
(* every stored session, so the AuthError guard of each call never fires.        *)
Free(t) == task[t].pc \in {"idle", "done"} /\ ops < MaxOps

CallListDevices(t) ==
    /\ Free(t)
    /\ task' = [task EXCEPT ![t] =
                   [IdleTask EXCEPT !.pc = "ld_lock", !.op = "list", !.from = "top"]]
    /\ ops' = ops + 1
    /\ UNCHANGED <<lock, devices_by_iot, managers_by_iot, last_known_by_iot,
                   session_mammotion, now, nextMgr, svOthers>>

CallGetDeviceStatus(t, id) ==
    /\ Free(t)
    /\ task' = [task EXCEPT ![t] =
                   [IdleTask EXCEPT !.pc = "gm_lock", !.op = "status", !.dev = id,
                                    !.known = id \in DOMAIN devices_by_iot]]
    /\ ops' = ops + 1
    /\ UNCHANGED <<lock, devices_by_iot, managers_by_iot, last_known_by_iot,
                   session_mammotion, now, nextMgr, svOthers>>

CallSendCommand(t, id, command) ==
    /\ Free(t)
    /\ task' = [task EXCEPT ![t] =
                   [IdleTask EXCEPT !.pc = "gm_lock", !.op = "send", !.dev = id,
                                    !.command = command,
                                    !.known = id \in DOMAIN devices_by_iot]]
    /\ ops' = ops + 1
    /\ UNCHANGED <<lock, devices_by_iot, managers_by_iot, last_known_by_iot,
                   session_mammotion, now, nextMgr, svOthers>>

\* asyncio.Lock: a task gets past "async with session.lock" when nobody holds it.
\* Mutant: the lock excludes nobody.
LockFreeAlways(holder) == TRUE
LockFree(holder) == holder = ""

\* async with session.lock of _get_or_create_manager, and what follows up to the
\* next await.
AcquireManager(t) ==
    /\ task[t].pc = "gm_lock"
    /\ LockFree(lock)
    /\ \E env \in LookupEnvs(task[t], Session) :
          Apply(t, Lookup(task[t], Session, env))

\* cloud.list_binding_by_dev returned a detail with a device, an empty detail, or
\* raised.
DetailReturns(t) ==
    /\ task[t].pc = "gm_detail"
    /\ \E detail \in {"d0", "empty", "raised"}, env \in CreateEnvs(task[t], Session) :
          LET d0 == [devices_by_iot[task[t].dev] EXCEPT !.identityId = "ident-detail"]
              devs2 == IF detail = "d0"
                       THEN [devices_by_iot EXCEPT ![task[t].dev] = d0]
                       ELSE devices_by_iot
          IN Apply(t, Create(task[t], [Session EXCEPT !.devs = devs2], env))

\* get_or_create_device_by_name returned a manager (the wait for MQTT and start_sync
\* follow under the lock) or raised.
OrchestratorReturns(t) ==
    /\ task[t].pc = "gm_mam"
    /\ \/ \E env \in ResultEnvs(task[t]) :
             Apply(t, Store([task[t] EXCEPT !.built = TRUE],
                            [Session EXCEPT !.nextMgr = nextMgr + 1], nextMgr, env))
       \/ \E env \in ConstructEnvs(task[t]) :
             Apply(t, Construct(task[t], Session, env))

\* cloud_dev.start_sync() of the direct construction completed.
SyncReturns(t) ==
    /\ task[t].pc = "gm_sync"
    /\ \E env \in ResultEnvs(task[t]) :
          Apply(t, Store(task[t], Session, task[t].pending, env))

\* async with session.lock of list_devices.
AcquireListing(t) ==
    /\ task[t].pc = "ld_lock"
    /\ LockFree(lock)
    /\ task' = [task EXCEPT ![t].pc = "ld_call"]
    /\ lock' = t
    /\ UNCHANGED <<devices_by_iot, managers_by_iot, last_known_by_iot,
                   session_mammotion, now, nextMgr, ops, svOthers>>

\* cloud.list_binding_by_account answered.
ListingReturns(t) ==
    /\ task[t].pc = "ld_call"
    /\ \E a \in ListingAnswers,
          env \in (IF task[t].from = "gocm" THEN ConstructEnvs(task[t]) ELSE {NoEnv}) :
          Apply(t, Listing(task[t], Session, a, env))

Init == SvInit /\ WmIdle /\ LsIdle /\ LgIdle /\ CmIdle /\ ClIdle /\ LoIdle /\ DmIdle /\ RdIdle /\ MmIdle

Next ==
    \/ \E t \in Tasks : CallListDevices(t)
    \/ \E t \in Tasks, id \in QueryIds : CallGetDeviceStatus(t, id)
    \/ \E t \in Tasks, id \in QueryIds, command \in SvCommands :
          CallSendCommand(t, id, command)
    \/ \E t \in Tasks : AcquireManager(t)
    \/ \E t \in Tasks : DetailReturns(t)
    \/ \E t \in Tasks : OrchestratorReturns(t)
    \/ \E t \in Tasks : SyncReturns(t)
    \/ \E t \in Tasks : AcquireListing(t)
    \/ \E t \in Tasks : ListingReturns(t)

Spec == Init /\ [][Next]_vars

\* C13: every read or modification of devices_by_iot, managers_by_iot or
\* last_known_by_iot is made while the executing task holds the session's lock: no
\* task has touched one of them after releasing the lock.
C13_AccessesUnderLock == \A t \in Tasks : ~task[t].unlocked

\* The texts the work-mode decode can produce.
DecodeOutputs == {MapWorkMode(n, ok) : n \in WorkModeInputs, ok \in BOOLEAN}

\* C16: the status text of a live result of get_device_status is absent or an
\* output of the work-mode decode; it is never the text of an upstream field.
C16_StatusOnlyFromDecode ==
    \A t \in Tasks :
        (task[t].op = "status" /\ task[t].pc = "done" /\ task[t].status.src = "live")
        => task[t].status.status \in DecodeOutputs \cup {NoneS}

\* C19: a list_devices call that returns leaves in devices_by_iot exactly the
\* devices of its listing, and a list_devices call that raises leaves devices_by_iot
\* as it was.
C19_IndexIsTheListing ==
    [][\A t \in Tasks :
          (task[t].op = "list" /\ task[t].pc = "ld_call" /\ task'[t].pc = "done")
          => IF task'[t].exc = ""
             THEN DOMAIN devices_by_iot'
                  = {task'[t].list[i].id : i \in 1..Len(task'[t].list)}
             ELSE devices_by_iot' = devices_by_iot]_vars

\* C20: the step of get_device_status that resolves the live fields leaves the other
\* devices' cache entries alone; when it changes the cache the entry of the device
\* gets a fresh timestamp; when it leaves the cache unchanged (nothing resolved) and
\* the cache holds an entry for the device, the call returns a result carrying the
\* cached battery and position.
C20_LastKnownRule ==
    [][\A t \in Tasks :
          (task[t].op = "status" /\ ~task[t].unlocked /\ task'[t].unlocked)
          => LET id == task[t].dev
                 old == LastOf(last_known_by_iot, id)
                 new == LastOf(last_known_by_iot', id)
             IN /\ \A k \in (DOMAIN last_known_by_iot) \ {id} :
                       /\ k \in DOMAIN last_known_by_iot'
                       /\ last_known_by_iot'[k] = last_known_by_iot[k]
                /\ IF last_known_by_iot' # last_known_by_iot
                   THEN new.updated_at = now' /\ new.updated_at > old.updated_at
                   ELSE id \in DOMAIN last_known_by_iot
                        => /\ task'[t].pc = "done"
                           /\ task'[t].status.battery = old.battery
                           /\ task'[t].status.position = old.position]_vars

\* C22: the step in which the construction of a device manager fails leaves
\* managers_by_iot without an entry for the device, and the send_command call that
\* asked for the manager ends with ServiceError.
C22_ConstructionFailureIsServiceError ==
    [][\A t \in Tasks :
          (~task[t].conFailed /\ task'[t].conFailed)
          => /\ task[t].dev \notin DOMAIN managers_by_iot'
             /\ task[t].op = "send"
                => (task'[t].pc = "done" /\ task'[t].exc = "ServiceError")]_vars

\* The tasks that hold a manager constructed but not yet written to the cache.
Pending == {t \in Tasks : task[t].pending # NoMgr}

\* C23: every manager constructed is written to managers_by_iot once and for one
\* device only: the managers made so far are the cache entries and the one a task
\* holding the lock is about to store, no device has two, and an entry once
\* written is never replaced or removed.
C23_ManagerOncePerDevice ==
    /\ [](/\ nextMgr - 1 = Cardinality(DOMAIN managers_by_iot) + Cardinality(Pending)
          /\ \A t \in Pending : lock = t /\ task[t].dev \notin DOMAIN managers_by_iot
          /\ \A i, j \in DOMAIN managers_by_iot :
                managers_by_iot[i] = managers_by_iot[j] => i = j)
    /\ [][\A id \in DOMAIN managers_by_iot :
             /\ id \in DOMAIN managers_by_iot'
             /\ managers_by_iot'[id] = managers_by_iot[id]]_vars

\* C23 witness: both tasks asked for the manager of one device while none was
\* cached; one built it and the other, after waiting for the lock, took it from the
\* cache.
C23_Witness ==
    /\ task["t1"].op = "status" /\ task["t2"].op = "send"
    /\ task["t1"].dev = task["t2"].dev
    /\ task["t1"].mgr # NoMgr /\ task["t1"].mgr = task["t2"].mgr
    /\ task["t2"].built /\ task["t1"].fast
    /\ nextMgr = 2

\* The cloud calls a task awaits return, and a task waiting for the lock gets it once
\* the lock stays free.
SpecFair ==
    /\ Spec
    /\ \A t \in Tasks :
          /\ WF_vars(AcquireManager(t))
          /\ WF_vars(AcquireListing(t))
          /\ WF_vars(DetailReturns(t) \/ OrchestratorReturns(t) \/ SyncReturns(t)
                     \/ ListingReturns(t))

\* C27: every call a task has started completes, and the lock, once taken, is
\* released again.
C27_CallsComplete ==
    /\ \A t \in Tasks : (task[t].pc \notin {"idle", "done"}) ~> (task[t].pc = "done")
    /\ \A t \in Tasks : (lock = t) ~> (lock # t)

\* C2: _get_or_create_manager for an id absent from the index completes (with
\* NotFoundError when the refresh does not bring the id): the call that went on to
\* refresh the listing never waits for the session lock while holding it itself.
C2_AbsentIdCompletes ==
    \A t \in Tasks :
        (task[t].from = "gocm" /\ task[t].pc = "ld_lock") => lock # t

\* C3: of two _get_or_create_manager calls for one device that both returned, the
\* handles are the same object, and one of them (the later) took the handle from
\* the cache, with no cloud call and no construction.
GocmReturned(t) == task[t].mgr # NoMgr
C3_SameHandleNoWork ==
    \A t1, t2 \in Tasks :
        (t1 # t2 /\ GocmReturned(t1) /\ GocmReturned(t2) /\ task[t1].dev = task[t2].dev)
        => /\ task[t1].mgr = task[t2].mgr
           /\ \E t \in {t1, t2} :
                 task[t].fast /\ task[t].cloudCalls = 0 /\ ~task[t].built

C3_Witness ==
    /\ GocmReturned("t1") /\ GocmReturned("t2")
    /\ task["t1"].dev = task["t2"].dev
    /\ task["t1"].built /\ task["t2"].fast

\* C4: get_device_status for a device known to the session never raises, also when
\* no live field resolves and the listing call or the manager lookup fails.
C4_KnownDeviceNeverRaises ==
    \A t \in Tasks :
        (task[t].op = "status" /\ task[t].known /\ task[t].pc = "done")
        => task[t].exc = ""

\* C7: every position get_device_status returns, and every position in the
\* last-known cache, is absent or a pair within range and not near (0, 0).
ValidOrAbsent(p) ==
    \/ p = NoPos
    \/ /\ Abs(p.lat) <= LatLimit /\ Abs(p.lon) <= LonLimit
       /\ ~(Abs(p.lat) < NearZero /\ Abs(p.lon) < NearZero)
C7_PositionsValid ==
    /\ \A t \in Tasks : ValidOrAbsent(task[t].status.position)
    /\ \A id \in DOMAIN last_known_by_iot :
          ValidOrAbsent(last_known_by_iot[id].position)

SpecClientInit == ClInit /\ WmIdle /\ LsIdle /\ LgIdle /\ CmIdle /\ SvIdle /\ LoIdle /\ DmIdle /\ RdIdle /\ MmIdle

SpecClientNext ==
    \/ ClientLogin
    \/ ClientLoginHttp
    \/ ClientLoginInit
    \/ ClientLoginSleep
    \/ ClientClose
    \/ \E op \in {"list_devices", "get_status", "send_command", "health_check",
                  "with_retry"} : ClientRequest(op)
    \/ ClientCloudReturns
    \/ ClientProbeReturns
    \/ ClientOperationReturns
    \/ ClientRetrySleep

SpecClient == SpecClientInit /\ [][SpecClientNext]_vars

\* C11: in with_retry a failed health probe raises the reauthentication error at
\* once: the call is over with that error, no sleep and no further attempt follows.
C11_ProbeFailureRaisesAtOnce ==
    (clReq.op = "with_retry" /\ clReq.probeFailed > 0)
    => /\ clReq.pc = "done"
       /\ clReq.exc = "Connection lost"
       /\ clReq.probeFailed = 1
       /\ clReq.sleeps = 0

\* C12: with_retry invokes the wrapped operation at most MaxRetries times, returns
\* at the first success, sleeps only between attempts and never after the last, and
\* on exhaustion raises an error carrying the failure of the last attempt.
C12_RetryDiscipline ==
    clReq.op = "with_retry"
    => /\ clReq.opCalls <= MaxRetries
       /\ clReq.opCalls <= clReq.attempt + 1
       /\ clReq.attempt < MaxRetries
       /\ clReq.opOk => (clReq.pc = "done" /\ clReq.exc = "" /\ clReq.result = "value")
       /\ clReq.sleeps = clReq.attempt + (IF clReq.pc = "sleep" THEN 1 ELSE 0)
       /\ (clReq.pc = "done" /\ clReq.exc # "")
          => /\ clReq.exc = "Operation failed"
             /\ clReq.attempt = MaxRetries - 1
             /\ clReq.sleeps = MaxRetries - 1
             /\ clReq.carried = clReq.lastError
             /\ clReq.carried[2] = MaxRetries - 1

C12_Witness ==
    /\ clReq.op = "with_retry" /\ clReq.pc = "done"
    /\ clReq.exc = "Operation failed"
    /\ clReq.opCalls = MaxRetries
    /\ clReq.carried[1] = "operation error"

\* C18: after a login that failed on every attempt, on a fresh client and after
\* close, the client is unauthenticated with no login time (connection_age None),
\* health_check answers False, and list_devices, get_status and send_command
\* raise "Not authenticated" without a cloud contact.
C18_UnauthenticatedRejects ==
    /\ clLogin.pc \in {"fresh", "failed", "closed"}
       => /\ ~pmc.authenticated
          /\ pmc.last_login_time = NoneN
    /\ (clReq.op # "with_retry" /\ clReq.after \in {"fresh", "failed", "closed"})
       => /\ clReq.pc = "done"
          /\ clReq.contacts = 0
          /\ ~clReq.passed
          /\ IF clReq.op = "health_check"
             THEN clReq.result = "False" /\ clReq.exc = ""
             ELSE clReq.exc = "Not authenticated" /\ clReq.result = ""

C18_Witness ==
    /\ clReq.op = "send_command"
    /\ clReq.after = "failed"
    /\ clReq.exc = "Not authenticated"
    /\ clLogin = [pc |-> "failed", attempt |-> MaxRetries - 1]

SpecLogoutInit == LoInit /\ LgInit /\ WmIdle /\ LsIdle /\ CmIdle /\ SvIdle /\ ClIdle /\ DmIdle /\ RdIdle /\ MmIdle

SpecLogoutNext ==
    \/ CreateSessionFor
    \/ LoginStoresSession
    \/ LogoutStart
    \/ LogoutStep
    \/ ResolveSession
    \/ DeleteSession

SpecLogout == SpecLogoutInit /\ [][SpecLogoutNext]_vars

\* The teardown methods the session's resources have, as logout visits them.
PresentPairs(session) ==
    {LogoutPairs[p] : p \in {q \in 1..8 :
        LET obj == IF q <= 4 THEN session.manager ELSE session.client
        IN obj # 0 /\ LogoutPairs[q][2] \in MethodsOf(obj)}}

\* C14: logout never raises, and once it is over every teardown method of every
\* resource of the session has been attempted, whichever of them failed.
C14_LogoutBestEffort ==
    /\ lo.pc # "raised"
    /\ lo.failed \subseteq lo.attempted
    /\ lo.pc = "done" => lo.attempted = PresentPairs(lo.session)

C14_Witness ==
    /\ lo.pc = "done"
    /\ <<"manager", "disconnect">> \in lo.failed
    /\ <<"client", "logout">> \in lo.attempted
    /\ lo.attempted = PresentPairs(lo.session)

\* C26: the logout of a session that holds the push-transport orchestrator
\* (session.mammotion) has attempted a teardown method on it, as on the cloud
\* client.
C26_AllKindsTornDown ==
    (lo.pc = "done" /\ lo.session.mammotion)
    => /\ \E pair \in lo.attempted : pair[1] = "client"
       /\ \E pair \in lo.attempted : pair[1] = "mammotion"

\* C17: a sid resolves only if a session was stored under it, and after the logout
\* of a session is over its sid is gone from the store and resolve_session raises
\* AuthError for it.
C17_SessionLifecycle ==
    /\ rs.result = "session" => (rs.sid >= 1 /\ rs.sid < nextSid)
    /\ rs.afterLogout => rs.result = "AuthError"
    /\ lo.pc = "done" => lo.sid \notin DOMAIN store

SpecDeviceManagerInit == DmInit /\ WmIdle /\ LsIdle /\ LgIdle /\ CmIdle /\ SvIdle /\ ClIdle /\ LoIdle /\ RdIdle /\ MmIdle

SpecDeviceManagerNext ==
    \/ DmAuthenticate
    \/ \E id \in DmDevices : DmCommand(id)
    \/ DmSendReturns
    \/ DmStatusReturns

SpecDeviceManager == SpecDeviceManagerInit /\ [][SpecDeviceManagerNext]_vars

\* C25: command publishes a status only after its send succeeded and only on the
\* topic of its device; a failed send ends the call with its error and nothing
\* published; once the send succeeded the call never ends with an error.
C25_RefreshAfterSuccessOnly ==
    /\ [](/\ dmCmd.put # <<>> => (dmCmd.sent /\ dmCmd.put[1] = <<"device", dmCmd.id>>)
          /\ (dmCmd.pc = "done" /\ ~dmCmd.sent) => (dmCmd.exc # "" /\ dmCmd.put = <<>>)
          /\ dmCmd.sent => dmCmd.exc = "")
    /\ [][dmTopics' # dmTopics
          => /\ dmCmd.sent /\ dmCmd.pc = "status"
             /\ dmTopics' = Publish(dmTopics, <<"device", dmCmd.id>>, dmCmd'.put[2])]_vars

\* C25 witness: a command was sent, and its status refresh failed; an earlier
\* command's status is on the topic of its device.
C25_Witness ==
    /\ dmCmd.pc = "done" /\ dmCmd.sent /\ ~dmCmd.refreshed /\ dmCmd.exc = ""
    /\ dmCmd.id = "d2"
    /\ <<"device", "d1">> \in DOMAIN dmTopics

\* C29: is_authenticated holds only with a manager whose cloud connection has
\* finished initializing, and a cloud call of list_devices, get_status,
\* send_command or health_check is in flight only against such a manager.
C29_AuthenticatedOnlyWhenReady ==
    /\ pmc.authenticated => pmc.mgr = "ready"
    /\ clReq.pc = "cloud" => pmc.mgr = "ready"

SpecRedisInit == RdInit /\ WmIdle /\ LsIdle /\ LgIdle /\ CmIdle /\ SvIdle /\ ClIdle /\ LoIdle /\ DmIdle /\ MmIdle

SpecRedisNext ==
    \E t \in RdTasks :
        \/ RdCreate(t)
        \/ \E op \in {"get", "update", "delete"} : RdCall(t, op)
        \/ RdGet(t)
        \/ RdSetex(t)
        \/ RdDelete(t)

SpecRedis == SpecRedisInit /\ [][SpecRedisNext]_vars

\* C28: once delete_session returned True for a sid, the sid is not stored, and no
\* get_session or update_session call that ended afterwards returned the session.
C28_DeletedStaysDeleted ==
    /\ \A sid \in rdDeleted : sid \notin DOMAIN rdKeys
    /\ \A t \in RdTasks :
          (rdTask[t].pc = "done" /\ rdTask[t].late /\ rdTask[t].op \in {"get", "update"})
          => rdTask[t].result \in {"None", "False"}

SpecModelInit == MmInit /\ WmIdle /\ LsIdle /\ LgIdle /\ CmIdle /\ SvIdle /\ ClIdle /\ LoIdle /\ DmIdle /\ RdIdle

SpecModelNext ==
    \/ \E email \in ModelEmails, accepted \in BOOLEAN, raises \in BOOLEAN :
          ModelLogin(email, accepted, raises)
    \/ ModelLogout

SpecModel == SpecModelInit /\ [][SpecModelNext]_vars

\* C30: a login with credentials the backend accepts returns True and leaves the
\* model connected, whether or not a logout was performed on the model before.
C30_LoginRepeatable ==
    (mmLast.op = "login" /\ mmLast.accepted)
    => (mmLast.result = "True" /\ mmModel.is_connected)

SpecCommandInit == CmInit /\ WmIdle /\ LsIdle /\ LgIdle /\ SvIdle /\ ClIdle /\ LoIdle /\ DmIdle /\ RdIdle /\ MmIdle

SpecCommandNext == \E i \in 1..2 : SendCommandCall(i)

SpecCommand == SpecCommandInit /\ [][SpecCommandNext]_vars

CmDone(i) == cmOut[i] # NotCalled

\* C5: a send_command call that returns normally has invoked a device method or
\* the queued-command fallback.
C5_NeverSilentNoOp ==
    \A i \in 1..2 : CmDone(i) /\ cmOut[i].exc = "" => cmOut[i].call # NoCall

\* C9: on the same device, a call with any case or whitespace variant of
\* Start_Mowing or start makes the same device-side invocation as a call with the
\* plain word start or start_mowing.
C9_StartSynonymsAgree ==
    ( /\ CmDone(1) /\ CmDone(2)
      /\ cmRaw[1] \in Variants(W_start_mowing) \cup Variants(W_start)
      /\ cmRaw[2] \in {W_start, W_start_mowing} )
    => cmOut[1].call = cmOut[2].call

\* C9 witness: " Start_Mowing" and "start" both invoked start_map_hash.
C9_Witness ==
    /\ cmRaw[1] = <<" ">> \o Capitalized(W_start_mowing)
    /\ cmRaw[2] = W_start
    /\ CmDone(1) /\ CmDone(2)
    /\ cmOut[1].call.method = "start_map_hash"
    /\ cmOut[2].call.method = "start_map_hash"

\* The canonical action a command text stands for: case and surrounding whitespace
\* ignored, synonyms folded; "" when it is none of the six.
CanonicalAction(raw) ==
    LET w == Strip(Lower(raw))
    IN IF w \in {W_start, W_start_mowing} THEN "start"
       ELSE IF w = W_pause THEN "pause"
       ELSE IF w = W_resume THEN "resume"
       ELSE IF w = W_stop THEN "stop"
       ELSE IF w \in {W_dock, W_return, W_return_to_dock} THEN "return_to_dock"
       ELSE IF w = W_edge_cut THEN "edge_cut"
       ELSE ""

\* C10: a command that stands for one of the six actions is not rejected as
\* unknown, a command that stands for none of them raises CommandError, and on a
\* device offering every method two different actions make different invocations.
C10_SixDistinctActions ==
    \A i \in 1..2 : CmDone(i) =>
        /\ CanonicalAction(cmRaw[i]) # "" => cmOut[i].msg # "Unbekannter Befehl"
        /\ CanonicalAction(cmRaw[i]) = "" => cmOut[i].exc = "CommandError"
        /\ \A j \in 1..2 :
              ( /\ CmDone(j)
                /\ CanonicalAction(cmRaw[i]) # ""
                /\ CanonicalAction(cmRaw[j]) # ""
                /\ CanonicalAction(cmRaw[i]) # CanonicalAction(cmRaw[j])
                /\ cmCaps.cloudDev
                /\ cmCaps.cloudCaps = DeviceMethods \cup {"queue_command"} )
              => cmOut[i].call # cmOut[j].call

\* The candidate list of the action a command text stands for.
CandidatesOf(raw) ==
    IF CanonicalAction(raw) = "start" THEN StartCandidates
    ELSE IF CanonicalAction(raw) \in {"pause", "stop"} THEN StopCandidates
    ELSE IF CanonicalAction(raw) = "return_to_dock" THEN DockCandidates
    ELSE <<>>

\* The positions of the candidates present on the mower object or on its parent.
PresentAt(caps, cands) ==
    {k \in 1..Len(cands) :
        (caps.mowerObj /\ cands[k] \in caps.mowerCaps) \/ cands[k] \in caps.cloudCaps}

\* C24: a send_command call that returned made exactly one device-side invocation:
\* of the first candidate present, on the mower object if it has it and else on the
\* parent, or of queue_command when no candidate is present on either.
C24_ExactlyOneInvocation ==
    \A i \in 1..2 :
        (CmDone(i) /\ cmOut[i].exc = "")
        => LET cands == CandidatesOf(cmRaw[i])
               present == PresentAt(cmCaps, cands)
               first == CHOOSE k \in present : \A j \in present : k <= j
           IN IF present # {}
              THEN /\ cmOut[i].call.method = cands[first]
                   /\ cmOut[i].call.target =
                         IF cmCaps.mowerObj /\ cands[first] \in cmCaps.mowerCaps
                         THEN "mower" ELSE "cloud_dev"
              ELSE cmOut[i].call.method = "queue_command"

SpecLoginInit == LgInit /\ WmIdle /\ LsIdle /\ CmIdle /\ SvIdle /\ ClIdle /\ LoIdle /\ DmIdle /\ RdIdle /\ MmIdle

SpecLoginNext ==
    \E c \in Callers :
        \/ LoginStart(c)
        \/ LoginStage(c)
        \/ LoginAepHandle(c)
        \/ LoginMqttInit(c)
        \/ LoginMqttPoll(c)

SpecLogin == SpecLoginInit /\ [][SpecLoginNext]_vars

\* C1: a login call in which one of the five handshake stages failed has raised
\* AuthError, returned no sid, and no entry of the session store holds its client.
C1_FailedStageStoresNothing ==
    \A c \in Callers :
        lgFailed[c] \in StagePcs =>
            /\ lgPc[c] = "raised"
            /\ lgErr[c] = "AuthError"
            /\ lgResult[c] = 0
            /\ \A sid \in DOMAIN store : store[sid].client # lgCloud[c]

\* The awaits past the five stages return: aep_handle, login_and_initiate_cloud and
\* each asyncio.sleep of the wait loop come back.
SpecLoginFair ==
    /\ SpecLogin
    /\ \A c \in Callers :
          WF_vars(LoginAepHandle(c) \/ LoginMqttInit(c) \/ LoginMqttPoll(c))

\* The positions of a login call past the five handshake stages.
PastStages == {"aep_handle", "mqtt_init", "mqtt_wait"}

\* C21: a login call past the five stages ends with a stored session, after fewer
\* than MqttPolls further sleeps, and never raises: neither a failing aep_handle
\* nor a failing transport setup nor a transport that never connects fails it.
\* The callers are interchangeable, so termination is stated for caller "a" while
\* caller "b" runs beside it.
C21_LoginCompletesDegraded ==
    /\ [](\A c \in Callers :
            /\ lgPolls[c] < MqttPolls
            /\ lgFailed[c] \in {"aep_handle", "mqtt_init", "mqtt_timeout"}
               => /\ lgPc[c] = "returned"
                  /\ lgResult[c] \in DOMAIN store
                  /\ store[lgResult[c]].client = lgCloud[c])
    /\ (lgPc["a"] \in PastStages)
          ~> (lgPc["a"] = "returned" /\ lgResult["a"] \in DOMAIN store)

C21_Witness ==
    \E c, d \in Callers :
        /\ lgPc[c] = "returned" /\ lgFailed[c] = "mqtt_timeout"
        /\ store[lgResult[c]].mammotion
        /\ lgPc[d] = "returned" /\ lgFailed[d] = "mqtt_init"
        /\ ~store[lgResult[d]].mammotion

\* C15: a login called with an empty email stores no session and does not return:
\* no stored session carries the empty email and no such call has returned a sid.
C15_EmptyInputRejected ==
    /\ \A sid \in DOMAIN store : store[sid].email # ""
    /\ \A c \in Callers : lgPc[c] = "returned" => lgEmail[c] # ""

\* C1 witness: a call failed in a stage while the store holds another call's session.
C1_Witness ==
    \E c \in Callers :
        /\ lgFailed[c] = "session_by_auth_code"
        /\ lgPc[c] = "raised"
        /\ DOMAIN store # {}

SpecListingInit == LsInit /\ WmIdle /\ LgIdle /\ CmIdle /\ SvIdle /\ ClIdle /\ LoIdle /\ DmIdle /\ RdIdle /\ MmIdle

SpecListingNext == ListTyped \/ ListDict \/ ListFlat

SpecListing == SpecListingInit /\ [][SpecListingNext]_vars

\* The (id, name, model) summaries of an outcome, as a set.
SummarySet(out) ==
    { <<out.result[i].id, out.result[i].name, out.result[i].model>> :
        i \in 1..Len(out.result) }

\* C6: the three shapes of the same logical devices give the same set of
\* (id, name, model) summaries.
C6_SameSummaries ==
    (\A sh \in Shapes : lsOut[sh] # NotRun) =>
        /\ \A sh \in Shapes : lsOut[sh].err = ""
        /\ \A sh \in Shapes : SummarySet(lsOut[sh]) = SummarySet(lsOut["typed"])

SpecWorkModeInit == WmInit /\ LsIdle /\ LgIdle /\ CmIdle /\ SvIdle /\ ClIdle /\ LoIdle /\ DmIdle /\ RdIdle /\ MmIdle

SpecWorkModeNext == CallMapWorkMode

SpecWorkMode == SpecWorkModeInit /\ [][SpecWorkModeNext]_vars

\* The ten codes the specification lists, with their texts.
TenCodes ==
    { <<11, "standby">>, <<13, "mowing">>, <<14, "returning">>, <<15, "charging">>,
      <<19, "paused">>, <<1, "online">>, <<2, "offline">>, <<17, "locked">>,
      <<16, "updating">>, <<23, "update_failed">> }

\* C8 (as stated): the ten codes decode to their texts and every other integer n
\* decodes to mode_<n>.
C8_Original ==
    wmResult # NoneS =>
        IF \E p \in TenCodes : p[1] = wmValue
        THEN \E p \in TenCodes : p[1] = wmValue /\ wmResult = p[2]
        ELSE wmResult = ModeN(wmValue)

\* C8 (amended): with the WorkMode constants importable, the ten codes decode to
\* their texts, code 0 decodes to standby as well, and every other integer n decodes
\* to mode_<n>; when the import fails every n decodes to mode_<n>.
C8_WorkModeDecode ==
    wmResult # NoneS =>
        IF ~wmImportOk THEN wmResult = ModeN(wmValue)
        ELSE IF \E p \in TenCodes : p[1] = wmValue
        THEN \E p \in TenCodes : p[1] = wmValue /\ wmResult = p[2]
        ELSE IF wmValue = 0 THEN wmResult = "standby"
        ELSE wmResult = ModeN(wmValue)

\* C8 witness: the decode ran on code 0 and on an unlisted code with the import available.
C8_Witness ==
    /\ wmImportOk
    /\ wmValue = 0
    /\ wmResult = "standby"

====
